---- MODULE Spec2Model ----
(***************************************************************************)
(* Verification model of the CTF solver's orchestration core.              *)
(*                                                                         *)
(*   SpecConv    the conversation manager of src/main.py: the sequence     *)
(*               validity rule and the token-budget ladder of agent_node,  *)
(*               applied to every bounded message history.                 *)
(*   SpecInvoke  the rate-limit-aware model invocation of src/main.py.     *)
(*   Spec        the multi-stage workflow of src/src/graph/workflow.py     *)
(*               with the stage executors it drives; FairSpec adds the     *)
(*               driver's progress, SpecWeb the stop request of the web    *)
(*               front end (src/src/web/app.py).                           *)
(*   SpecCoordinator  the coordinator's routing decision, applied to       *)
(*               every combination of pages, findings, queue and flags.    *)
(*   SpecExtract the flag extraction of src/src/agents/fuzzer.py, applied  *)
(*               to every bounded response body and flag format.           *)
(*   SpecDelay   the backoff parsing of src/main.py (extract_retry_delay), *)
(*               applied character by character to bounded error texts.    *)
(*   SpecAgent   the agent loop of src/main.py: model turns, the           *)
(*               conditional edge, the tools and the browser manager.      *)
(*   SpecObserver  the worker thread and the polling loop of the Streamlit   *)
(*               front end (src/app.py) with its log and result queues.    *)
(*   SpecStages  the stage steps of the workflow followed through their    *)
(*               exception handlers over a target with few findings: the   *)
(*               error logs, the attempt records and the fuzzer's browser  *)
(*               session, which Spec does not follow.                      *)
(*                                                                         *)
(* Token counts are carried by each message (field tokens) and add up; a   *)
(* delay is counted in tenths of a second; a progress or confidence value  *)
(* is counted in hundredths.                                               *)
(***************************************************************************)
EXTENDS Integers, Sequences, FiniteSets, TLC

VARIABLES
    \* ---- conversation manager (src/main.py agent_node) ----
    messages,        \* state["messages"]: the untrimmed history
    raises,          \* ladder positions at which the trim_messages call raises
    apc,             \* position of agent_node: "entry", "invoked" (model called), "raised"
    trimmed_messages,\* agent_node's trimmed_messages, the history handed to the model
    verdict,         \* what validate_message_sequence(messages) returned, once called
    \* ---- rate-limited invoker (src/main.py invoke_llm_with_rate_limit_handling) ----
    max_attempts,    \* the max_attempts argument
    attempt,         \* the local attempt counter
    ipc,             \* position: "loop" (at the while test), "returned", "raised", "idle"
    outcomes,        \* what each llm_instance.invoke call did, in call order
    sleeps,          \* the delays passed to time.sleep, in order (tenths of a second)
    raised,          \* the exception that left the function, "" while none
    guidance,        \* TRUE once the message-ordering guidance was logged
    \* ---- workflow (src/src/graph/workflow.py) over CTFState (src/src/models/state.py) ----
    node,            \* the graph node the driver is at, "END" once the run is over
    wpc,             \* "node": about to run the node; "route": about to evaluate its conditional edge
    workflow_status, \* CTFState.workflow_status
    current_agent,   \* CTFState.current_agent
    completed_agents,\* CTFState.completed_agents
    progress,        \* agent_states[a].progress, in hundredths
    crawled_pages,   \* len(CTFState.crawled_pages)
    vulnerabilities, \* CTFState.vulnerabilities
    fuzzing_queue,   \* CTFState.fuzzing_queue
    exploit_attempts,\* CTFState.submission.exploit_attempts (task, status and flag of each)
    flags_found,     \* CTFState.flags_found
    attempted_payloads, \* CTFState.attempted_payloads
    flag_format,     \* CTFState.challenge.flag_format
    \* ---- flag extraction (src/src/agents/fuzzer.py _extract_flag) ----
    content,         \* the response body handed to _extract_flag
    extracted,       \* what _extract_flag returned, once called
    \* ---- backoff parsing (src/main.py extract_retry_delay) ----
    error_message,   \* the error text handed to extract_retry_delay
    retry_delay,     \* what extract_retry_delay did with it, once called
    \* ---- agent loop (src/main.py run_ctf_solver, app, browser_manager) ----
    history,         \* the graph state's "messages" during app.invoke
    lpc,             \* position of the run: "agent", "route", "tools", "returned", "raised", "idle"
    final_content,   \* what run_ctf_solver returned
    driver,          \* browser_manager.driver: "none" or "open"
    sessions_created,\* how many times webdriver.Chrome(...) returned a session
    sessions_closed, \* how many times driver.quit() was called
    \* ---- stage executors followed through their handlers (SpecStages) ----
    agent_errors,    \* len(agent_states[a].errors) of each stage
    stage_exception, \* what the last stage step raised: "none", "in_try", "in_finally"
    last_attempt,    \* the ExploitAttempt added last, with its response and error fields
    fuzzer_driver,   \* FuzzerAgent.driver: "none" or "open"
    fuzzer_sessions_created, \* how many times the fuzzer's webdriver.Chrome(...) returned
    fuzzer_sessions_closed,  \* how many times the fuzzer's driver.quit() returned
    \* ---- worker thread and polling loop of the front end (src/app.py) ----
    solver_thread,   \* the worker: "running", "put" (result queued, not yet ended), "ended", "none"
    emitted,         \* how many log records the worker's QueueHandler has emitted
    log_queue,       \* log_queue: the records emitted and not yet taken
    result_queue,    \* result_queue: the worker's (status, result), until taken
    all_logs,        \* all_logs: the records the polling loop has appended
    opc,             \* position of the observer: "while", "drain", "check", "after", "shown", "idle"
    session_state,   \* which of st.session_state's result keys is set: "SUCCESS", "ERROR", "none"
    displayed        \* what the final result display showed: "SUCCESS", "ERROR", "nothing", ""

convVars == <<messages, raises, apc, trimmed_messages, verdict>>
invVars == <<max_attempts, attempt, ipc, outcomes, sleeps, raised, guidance>>
wfVars == <<node, wpc, workflow_status, current_agent, completed_agents, progress,
            crawled_pages, vulnerabilities, fuzzing_queue, exploit_attempts,
            flags_found, attempted_payloads, flag_format>>
extVars == <<content, extracted>>
delayVars == <<error_message, retry_delay>>
loopVars == <<history, lpc, final_content, driver, sessions_created, sessions_closed>>
stageVars == <<agent_errors, stage_exception, last_attempt, fuzzer_driver,
              fuzzer_sessions_created, fuzzer_sessions_closed>>
obsVars == <<solver_thread, emitted, log_queue, result_queue, all_logs, opc,
            session_state, displayed>>
restVars == <<delayVars, loopVars, stageVars, obsVars>>
vars == <<convVars, invVars, wfVars, extVars, restVars>>

\* verdict before validate_message_sequence was called
NotCalled == [is_valid |-> FALSE, reason |-> "not_called", at |-> 0]

----------------------------------------------------------------------------
(* Bounds of the model *)

\* longest history drawn for the conversation manager
MaxLen == 3

----------------------------------------------------------------------------
(* Messages *)

\* token weights a single message may carry
TokenSizes == {10000, 90000}

MessageTypes == {"SystemMessage", "HumanMessage", "AIMessage", "ToolMessage"}

\* A message: its class, whether it carries tool_calls (AIMessage only), its tokens
Message ==
    { m \in [type : MessageTypes, tool_calls : BOOLEAN, tokens : TokenSizes] :
        m.tool_calls => m.type = "AIMessage" }

\* isinstance(msg, AIMessage) and hasattr(msg, 'tool_calls') and msg.tool_calls
HasToolCalls(m) == m.type = "AIMessage" /\ m.tool_calls

\* isinstance(msg, ToolMessage)
IsTool(m) == m.type = "ToolMessage"

RECURSIVE SeqsUpTo(_, _)
SeqsUpTo(S, n) ==
    IF n = 0 THEN {<<>>}
    ELSE LET shorter == SeqsUpTo(S, n - 1)
         IN  shorter \cup { Append(s, x) : s \in { t \in shorter : Len(t) = n - 1 }, x \in S }

Histories == SeqsUpTo(Message, MaxLen)

----------------------------------------------------------------------------
(* validate_message_sequence *)

\* The body of the for loop at one position i (1-based): the reason of the
\* first return False it reaches, or "ok" when it falls through.
ValidateAtNoPrevCheck(msgs, i) ==
    LET msg == msgs[i] IN
    IF HasToolCalls(msg) THEN
        IF i = 1 THEN "ai_first"
        ELSE IF i + 1 > Len(msgs) THEN "ai_no_following"
        ELSE IF ~IsTool(msgs[i + 1]) THEN "ai_bad_following"
        ELSE "ok"
    ELSE IF IsTool(msg) THEN
        IF i = 1 THEN "tool_first"
        ELSE IF IsTool(msgs[i - 1]) THEN "ok"
        ELSE IF ~HasToolCalls(msgs[i - 1]) THEN "tool_bad_previous"
        ELSE "ok"
    ELSE "ok"

\* the loop body accepting a system message as predecessor of a tool-call turn
ValidateAtSystemPredecessor(msgs, i) ==
    LET msg == msgs[i] IN
    IF HasToolCalls(msg) THEN
        IF i = 1 THEN "ai_first"
        ELSE IF ~(msgs[i - 1].type \in {"HumanMessage", "ToolMessage", "SystemMessage"})
             THEN "ai_bad_previous"
        ELSE IF i + 1 > Len(msgs) THEN "ai_no_following"
        ELSE IF ~IsTool(msgs[i + 1]) THEN "ai_bad_following"
        ELSE "ok"
    ELSE IF IsTool(msg) THEN
        IF i = 1 THEN "tool_first"
        ELSE IF IsTool(msgs[i - 1]) THEN "ok"
        ELSE IF ~HasToolCalls(msgs[i - 1]) THEN "tool_bad_previous"
        ELSE "ok"
    ELSE "ok"

ValidateAt(msgs, i) ==
    LET msg == msgs[i] IN
    IF HasToolCalls(msg) THEN
        IF i = 1 THEN "ai_first"
        ELSE IF ~(msgs[i - 1].type \in {"HumanMessage", "ToolMessage"}) THEN "ai_bad_previous"
        ELSE IF i + 1 > Len(msgs) THEN "ai_no_following"
        ELSE IF ~IsTool(msgs[i + 1]) THEN "ai_bad_following"
        ELSE "ok"
    ELSE IF IsTool(msg) THEN
        IF i = 1 THEN "tool_first"
        ELSE IF IsTool(msgs[i - 1]) THEN "ok"
        ELSE IF ~HasToolCalls(msgs[i - 1]) THEN "tool_bad_previous"
        ELSE "ok"
    ELSE "ok"

RECURSIVE ValidateFrom(_, _)
ValidateFrom(msgs, i) ==
    IF i > Len(msgs) THEN [is_valid |-> TRUE, reason |-> "Valid", at |-> 0]
    ELSE LET r == ValidateAt(msgs, i) IN
         IF r # "ok" THEN [is_valid |-> FALSE, reason |-> r, at |-> i]
         ELSE ValidateFrom(msgs, i + 1)

validate_message_sequence(msgs) == ValidateFrom(msgs, 1)

IsValid(msgs) == validate_message_sequence(msgs).is_valid

----------------------------------------------------------------------------
(* Token counting and trimming *)

RECURSIVE SumTokens(_, _)
SumTokens(msgs, i) ==
    IF i > Len(msgs) THEN 0 ELSE msgs[i].tokens + SumTokens(msgs, i + 1)

\* custom_token_counter: the count of a list of messages
custom_token_counter(msgs) == SumTokens(msgs, 1)

Max(a, b) == IF a >= b THEN a ELSE b

Suffix(s, k) == SubSeq(s, Len(s) - k + 1, Len(s))

\* trim_messages(messages, max_tokens, strategy="last", allow_partial=False,
\* include_system=True): a leading system message is kept, and after it the
\* longest run of most recent whole messages that fits the remaining budget.
trim_messages(msgs, max_tokens) ==
    LET hasSys    == Len(msgs) > 0 /\ msgs[1].type = "SystemMessage"
        rest      == IF hasSys THEN Tail(msgs) ELSE msgs
        remaining == IF hasSys THEN Max(0, max_tokens - msgs[1].tokens) ELSE max_tokens
        fits      == { k \in 0..Len(rest) : custom_token_counter(Suffix(rest, k)) <= remaining }
        kept      == CHOOSE k \in fits : \A j \in fits : j <= k
    IN  (IF hasSys THEN <<msgs[1]>> ELSE <<>>) \o Suffix(rest, kept)

TOKEN_LIMIT == 200000

\* token_limits_to_try: TOKEN_LIMIT, then int(TOKEN_LIMIT * p) for p = 0.9 .. 0.3
LadderWithoutCeiling ==
    [ j \in 1..7 |-> (TOKEN_LIMIT * (10 - j)) \div 10 ]

token_limits_to_try ==
    <<TOKEN_LIMIT>> \o [ j \in 1..7 |-> (TOKEN_LIMIT * (10 - j)) \div 10 ]

\* the for loop giving up at the first budget whose trimming raises
RECURSIVE LadderAbortingOnRaise(_, _, _)
LadderAbortingOnRaise(msgs, rs, a) ==
    IF a > Len(token_limits_to_try) THEN 0
    ELSE IF a \in rs THEN 0
    ELSE IF IsValid(trim_messages(msgs, token_limits_to_try[a])) THEN a
    ELSE LadderAbortingOnRaise(msgs, rs, a + 1)

\* The for loop over token_limits_to_try from position a on: the first
\* position whose trimming does not raise and whose candidate is valid, else 0.
RECURSIVE LadderFrom(_, _, _)
LadderFrom(msgs, rs, a) ==
    IF a > Len(token_limits_to_try) THEN 0
    ELSE IF a \in rs THEN LadderFrom(msgs, rs, a + 1)
    ELSE IF IsValid(trim_messages(msgs, token_limits_to_try[a])) THEN a
    ELSE LadderFrom(msgs, rs, a + 1)

\* The positions of token_limits_to_try at which the for loop calls
\* trim_messages, in the order of the calls: it goes on after an exception
\* (continue) and after an invalid candidate, and stops at a valid one (break).
RECURSIVE BudgetsTried(_, _, _)
BudgetsTried(msgs, rs, a) ==
    IF a > Len(token_limits_to_try) THEN <<>>
    ELSE IF a \in rs THEN <<a>> \o BudgetsTried(msgs, rs, a + 1)
    ELSE IF IsValid(trim_messages(msgs, token_limits_to_try[a])) THEN <<a>>
    ELSE <<a>> \o BudgetsTried(msgs, rs, a + 1)

\* trimmed_messages after the ladder and the "use all messages" fallback
TrimAcceptingInvalid(msgs, rs) ==
    LET first == { a \in 1..Len(token_limits_to_try) : a \notin rs }
    IN  IF first = {} THEN msgs
        ELSE trim_messages(msgs, token_limits_to_try[CHOOSE a \in first : \A b \in first : a <= b])

Trim(msgs, rs) ==
    LET a == LadderFrom(msgs, rs, 1)
    IN  IF a = 0 THEN msgs ELSE trim_messages(msgs, token_limits_to_try[a])

----------------------------------------------------------------------------
(* agent_node *)

\* agent_node up to the model call: the ladder, the "use all messages"
\* fallback with its final validation, then either ValueError or the model
\* call with trimmed_messages.
AgentNodeNoFinalValidation ==
    /\ apc = "entry"
    /\ trimmed_messages' = Trim(messages, raises)
    /\ apc' = "invoked"
    /\ UNCHANGED <<messages, raises, verdict, invVars, wfVars, extVars, restVars>>

agent_node ==
    /\ apc = "entry"
    /\ trimmed_messages' = Trim(messages, raises)
    /\ apc' = IF LadderFrom(messages, raises, 1) = 0 /\ ~IsValid(messages)
              THEN "raised" ELSE "invoked"
    /\ UNCHANGED <<messages, raises, verdict, invVars, wfVars, extVars, restVars>>

\* a call validate_message_sequence(messages) on the untrimmed history
ValidateCall ==
    /\ apc = "entry"
    /\ verdict = NotCalled
    /\ verdict' = validate_message_sequence(messages)
    /\ UNCHANGED <<messages, raises, apc, trimmed_messages, invVars, wfVars, extVars, restVars>>

\* the ladder positions at which the trim_messages call raises
RaiseChoices == {{}, {1}, {1, 2}, 1..8}

\* the invoker before any call of it
InvokeIdle ==
    /\ max_attempts = 0
    /\ attempt = 0
    /\ ipc = "idle"
    /\ outcomes = <<>>
    /\ sleeps = <<>>
    /\ raised = ""
    /\ guidance = FALSE

AgentTypes == {"crawler", "summarizer", "threat_model", "fuzzer", "coordinator"}

\* CTFState as constructed: the dataclass defaults and __post_init__
FreshState ==
    /\ workflow_status = "initializing"
    /\ current_agent = ""
    /\ completed_agents = {}
    /\ progress = [a \in AgentTypes |-> 0]
    /\ crawled_pages = 0
    /\ vulnerabilities = <<>>
    /\ fuzzing_queue = <<>>
    /\ exploit_attempts = <<>>
    /\ flags_found = <<>>
    /\ attempted_payloads = {}

\* no workflow running
WorkflowIdle ==
    /\ node = "idle"
    /\ wpc = "idle"
    /\ flag_format = <<>>
    /\ FreshState

\* _extract_flag not under examination
NotExtracted == [called |-> FALSE, flag |-> <<>>]

\* run_ctf_solver not running: browser_manager as constructed
LoopIdle ==
    /\ history = <<>>
    /\ lpc = "idle"
    /\ final_content = <<>>
    /\ driver = "none"
    /\ sessions_created = 0
    /\ sessions_closed = 0

\* the stages whose executors keep an error log
StageAgents == {"crawler", "summarizer", "threat_model", "fuzzer"}

\* no ExploitAttempt recorded yet
NoAttempt ==
    [attack_vector |-> 0, payload |-> "", status |-> "none", flag_found |-> <<>>,
     error_message |-> FALSE, status_code |-> 0]

\* the error logs as AgentState constructs them, the fuzzer as constructed
StagesFresh ==
    /\ agent_errors = [a \in StageAgents |-> 0]
    /\ stage_exception = "none"
    /\ last_attempt = NoAttempt
    /\ fuzzer_driver = "none"
    /\ fuzzer_sessions_created = 0
    /\ fuzzer_sessions_closed = 0

\* no solver started from the front end
ObserverIdle ==
    /\ solver_thread = "none"
    /\ emitted = 0
    /\ log_queue = <<>>
    /\ result_queue = <<>>
    /\ all_logs = <<>>
    /\ opc = "idle"
    /\ session_state = "none"
    /\ displayed = ""

\* extract_retry_delay not under examination
NotParsed == [called |-> FALSE, raises |-> FALSE, delay |-> [mant |-> 0, frac |-> 0]]

DelayIdle ==
    /\ error_message = <<>>
    /\ retry_delay = NotParsed
    /\ LoopIdle
    /\ StagesFresh
    /\ ObserverIdle

ExtractIdle ==
    /\ content = <<>>
    /\ extracted = NotExtracted

\* the conversation manager outside a run of agent_node
ConvIdle ==
    /\ messages = <<>>
    /\ raises = {}
    /\ apc = "idle"
    /\ trimmed_messages = <<>>
    /\ verdict = NotCalled

InitConv ==
    /\ messages \in Histories
    /\ raises \in RaiseChoices
    /\ apc = "entry"
    /\ trimmed_messages = <<>>
    /\ verdict = NotCalled
    /\ InvokeIdle
    /\ WorkflowIdle
    /\ ExtractIdle
    /\ DelayIdle

NextConv == agent_node \/ ValidateCall

SpecConv == InitConv /\ [][NextConv]_vars

----------------------------------------------------------------------------
(* Claims on the conversation manager *)

\* the four cases the claim C1 lists
ToolCallsAtZero(H) == Len(H) > 0 /\ HasToolCalls(H[1])
ToolCallsNotFollowed(H) ==
    \E i \in 1..Len(H) : HasToolCalls(H[i]) /\ (i = Len(H) \/ ~IsTool(H[i + 1]))
ToolAtZero(H) == Len(H) > 0 /\ IsTool(H[1])
ToolBadPredecessor(H) ==
    \E i \in 2..Len(H) : IsTool(H[i]) /\ ~(IsTool(H[i - 1]) \/ HasToolCalls(H[i - 1]))
\* the case the code also rejects
ToolCallsBadPredecessor(H) ==
    \E i \in 2..Len(H) :
        HasToolCalls(H[i]) /\ H[i - 1].type \notin {"HumanMessage", "ToolMessage"}

\* C1 as claimed: validate(H) is false iff one of the four listed cases holds.
C1_AsClaimed ==
    verdict # NotCalled =>
        (~verdict.is_valid <=>
            (\/ ToolCallsAtZero(messages) \/ ToolCallsNotFollowed(messages)
             \/ ToolAtZero(messages) \/ ToolBadPredecessor(messages)))

\* C1 amended: validate(H) is false iff one of the four listed cases holds or
\* an assistant message carrying tool-calls is preceded by something other
\* than a user message or a tool-result message.
C1_ValidateIff ==
    verdict # NotCalled =>
        (~verdict.is_valid <=>
            (\/ ToolCallsAtZero(messages) \/ ToolCallsNotFollowed(messages)
             \/ ToolAtZero(messages) \/ ToolBadPredecessor(messages)
             \/ ToolCallsBadPredecessor(messages)))

\* validate rejected a history only for the predecessor of a tool-call turn
C1_Witness ==
    /\ verdict # NotCalled
    /\ ~verdict.is_valid
    /\ verdict.reason = "ai_bad_previous"
    /\ ~ToolCallsNotFollowed(messages)
    /\ ~ToolBadPredecessor(messages)

\* no budget of the ladder whose trimming returns gives a valid candidate
NoBudgetValid(H, rs) ==
    \A a \in 1..Len(token_limits_to_try) :
        a \in rs \/ ~IsValid(trim_messages(H, token_limits_to_try[a]))

\* C2: the model is never called with a history failing validate; when no
\* budget gives a valid candidate and the untrimmed history is invalid too,
\* agent_node raises before the model call.
C2_NeverInvokedInvalid ==
    /\ apc = "invoked" => IsValid(trimmed_messages)
    /\ (apc # "entry" /\ NoBudgetValid(messages, raises) /\ ~IsValid(messages))
          => apc = "raised"

\* agent_node raised on a history no budget could repair
C2_Witness ==
    /\ apc = "raised"
    /\ Len(messages) > 1
    /\ raises = {}
    /\ trim_messages(messages, token_limits_to_try[8]) # messages

\* C3: the ladder's result satisfies validate, unless every tried budget and
\* the untrimmed history all fail, and then it is the untrimmed history.
C3_TrimValidOrUntrimmed ==
    apc # "entry" =>
        \/ IsValid(trimmed_messages)
        \/ /\ NoBudgetValid(messages, raises)
           /\ ~IsValid(messages)
           /\ trimmed_messages = messages

\* a lower budget gave the valid candidate after the ceiling budget gave an invalid one
C3_Witness ==
    /\ apc = "invoked"
    /\ raises = {}
    /\ LadderFrom(messages, raises, 1) > 1
    /\ Len(trimmed_messages) < Len(messages)
    /\ ~IsValid(trim_messages(messages, TOKEN_LIMIT))

----------------------------------------------------------------------------
(* extract_retry_delay and invoke_llm_with_rate_limit_handling *)

\* float(match.group(1)) on the captured text, in tenths of a second
IsFloat(text) == text \in {"12.5", "30", "7"}
Float(text) ==
    CASE text = "12.5" -> 125
      [] text = "30"   -> 300
      [] text = "7"    -> 70

\* The text of a ResourceExhausted error, as the two patterns see it: what
\* r'Please retry in ([\d.]+)s' captures and what
\* r'retry_delay\s*{\s*seconds:\s*(\d+)' captures ("" when no match).
RateLimitTexts ==
    { [retry_in |-> "12.5",  retry_delay |-> ""],
      [retry_in |-> "",      retry_delay |-> "30"],
      [retry_in |-> "7",     retry_delay |-> "30"],
      [retry_in |-> "",      retry_delay |-> ""],
      [retry_in |-> "1.2.3", retry_delay |-> ""] }

\* The text of any other error, as the classification reads it
OtherTexts == [has400 : BOOLEAN, function_call_turn : BOOLEAN, tool : BOOLEAN]

\* the first pattern of the list that matches, "" when none does
FirstCapture(e) == IF e.retry_in # "" THEN e.retry_in ELSE e.retry_delay

\* extract_retry_delay raises ValueError when float() rejects the capture
ExtractRaises(e) == FirstCapture(e) # "" /\ ~IsFloat(FirstCapture(e))

extract_retry_delay(e) ==
    IF FirstCapture(e) # "" THEN Float(FirstCapture(e)) ELSE 600

\* "400" in error_msg and ("function call turn" in lower or "tool" in lower)
LooksLikeOrdering(e) == e.has400 /\ (e.function_call_turn \/ e.tool)

\* one pass of the while loop in which llm_instance.invoke returns
InvokeReturns ==
    /\ ipc = "loop"
    /\ attempt < max_attempts
    /\ outcomes' = Append(outcomes, [kind |-> "ok"])
    /\ ipc' = "returned"
    /\ UNCHANGED <<max_attempts, attempt, sleeps, raised, guidance, convVars, wfVars, extVars, restVars>>

\* one pass in which it raises ResourceExhausted with text e
RateLimitedOffByOne(e) ==
    /\ ipc = "loop"
    /\ attempt < max_attempts
    /\ outcomes' = Append(outcomes, [kind |-> "rate_limit", text |-> e])
    /\ attempt' = attempt + 1
    /\ IF attempt' > max_attempts
       THEN /\ ipc' = "raised"
            /\ raised' = "ResourceExhausted"
            /\ UNCHANGED sleeps
       ELSE IF ExtractRaises(e)
       THEN /\ ipc' = "raised"
            /\ raised' = "ValueError"
            /\ UNCHANGED sleeps
       ELSE /\ sleeps' = Append(sleeps, extract_retry_delay(e))
            /\ ipc' = "loop"
            /\ UNCHANGED raised
    /\ UNCHANGED <<max_attempts, guidance, convVars, wfVars, extVars, restVars>>

RateLimited(e) ==
    /\ ipc = "loop"
    /\ attempt < max_attempts
    /\ outcomes' = Append(outcomes, [kind |-> "rate_limit", text |-> e])
    /\ attempt' = attempt + 1
    /\ IF attempt' >= max_attempts
       THEN /\ ipc' = "raised"
            /\ raised' = "ResourceExhausted"
            /\ UNCHANGED sleeps
       ELSE IF ExtractRaises(e)
       THEN /\ ipc' = "raised"
            /\ raised' = "ValueError"
            /\ UNCHANGED sleeps
       ELSE /\ sleeps' = Append(sleeps, extract_retry_delay(e))
            /\ ipc' = "loop"
            /\ UNCHANGED raised
    /\ UNCHANGED <<max_attempts, guidance, convVars, wfVars, extVars, restVars>>

InvokeRateLimited == \E e \in RateLimitTexts : RateLimited(e)

\* one pass in which it raises any other exception with text e
OtherErrorRetriedOnGuidance(e) ==
    /\ ipc = "loop"
    /\ attempt < max_attempts
    /\ outcomes' = Append(outcomes, [kind |-> "other", text |-> e])
    /\ guidance' = (guidance \/ LooksLikeOrdering(e))
    /\ IF LooksLikeOrdering(e)
       THEN /\ attempt' = attempt + 1
            /\ UNCHANGED <<ipc, raised>>
       ELSE /\ ipc' = "raised"
            /\ raised' = "Other"
            /\ UNCHANGED attempt
    /\ UNCHANGED <<max_attempts, sleeps, convVars, wfVars, extVars, restVars>>

OtherError(e) ==
    /\ ipc = "loop"
    /\ attempt < max_attempts
    /\ outcomes' = Append(outcomes, [kind |-> "other", text |-> e])
    /\ guidance' = (guidance \/ LooksLikeOrdering(e))
    /\ ipc' = "raised"
    /\ raised' = "Other"
    /\ UNCHANGED <<max_attempts, attempt, sleeps, convVars, wfVars, extVars, restVars>>

InvokeOtherError == \E e \in OtherTexts : OtherError(e)

\* the while test fails: raise Exception("Failed to invoke LLM after ...")
InvokeLoopExit ==
    /\ ipc = "loop"
    /\ attempt >= max_attempts
    /\ ipc' = "raised"
    /\ raised' = "Failed"
    /\ UNCHANGED <<max_attempts, attempt, outcomes, sleeps, guidance, convVars, wfVars, extVars, restVars>>

\* the max_attempts argument: from 0 to the default of the signature
DEFAULT_MAX_ATTEMPTS == 5

InitInvoke ==
    /\ max_attempts \in 0..DEFAULT_MAX_ATTEMPTS
    /\ attempt = 0
    /\ ipc = "loop"
    /\ outcomes = <<>>
    /\ sleeps = <<>>
    /\ raised = ""
    /\ guidance = FALSE
    /\ ConvIdle
    /\ WorkflowIdle
    /\ ExtractIdle
    /\ DelayIdle

NextInvoke ==
    \/ InvokeReturns
    \/ InvokeRateLimited
    \/ InvokeOtherError
    \/ InvokeLoopExit

SpecInvoke == InitInvoke /\ [][NextInvoke]_vars

----------------------------------------------------------------------------
(* Claims on the invoker *)

Calls == Len(outcomes)

\* C5: the model is called at most maxAttempts times; the first successful
\* response is returned; a further call is made only after a rate-limit error
\* and after one sleep of the delay parsed from it (or the default); once the
\* maxAttempts-th call has failed with a rate-limit error, invoke has failed.
C5_BoundedRetries ==
    /\ Calls <= max_attempts
    /\ \A i \in 1..Calls :
          /\ i < Calls => outcomes[i].kind = "rate_limit"
          /\ outcomes[i].kind = "ok" => (i = Calls /\ ipc = "returned")
    /\ ipc = "returned" => (Calls > 0 /\ outcomes[Calls].kind = "ok")
    /\ Len(sleeps) <= Calls
    /\ \A i \in 1..Len(sleeps) :
          /\ outcomes[i].kind = "rate_limit"
          /\ sleeps[i] = extract_retry_delay(outcomes[i].text)
    /\ \A i \in 1..Calls : i < Calls => Len(sleeps) >= i
    /\ (Calls > 0 /\ Calls = max_attempts /\ outcomes[Calls].kind = "rate_limit")
          => (ipc = "raised" /\ raised = "ResourceExhausted" /\ Len(sleeps) = Calls - 1)

\* the last allowed call failed with a rate-limit error after retries, one with the default delay
C5_Witness ==
    /\ max_attempts = DEFAULT_MAX_ATTEMPTS
    /\ Calls = max_attempts
    /\ outcomes[Calls].kind = "rate_limit"
    /\ ipc = "raised"
    /\ \E i \in 1..Len(sleeps) : sleeps[i] = 600
    /\ \E i \in 1..Len(sleeps) : sleeps[i] = 125

\* C6: an error other than a rate-limit error leaves invoke at once: it is
\* the last call, no sleep follows it, and it is re-raised, whatever the
\* attempt counter and whatever the classification logs.
C6_OtherErrorImmediate ==
    \A i \in 1..Calls :
        outcomes[i].kind = "other" =>
            /\ i = Calls
            /\ ipc = "raised"
            /\ raised = "Other"
            /\ Len(sleeps) = i - 1
            /\ attempt = i - 1

\* after a retry, a 400 error naming tool calls was logged with guidance and re-raised
C6_Witness ==
    /\ Calls > 1
    /\ outcomes[Calls].kind = "other"
    /\ LooksLikeOrdering(outcomes[Calls].text)
    /\ guidance
    /\ ipc = "raised"

----------------------------------------------------------------------------
(* The workflow: CTFState, the stage executors and the graph of CTFSolverGraph *)

\* What the crawl of one Crawl step adds to crawled_pages
PageBatches == {0, 25}

\* Vulnerabilities the threat-model stage may identify: type, location,
\* confidence (hundredths), attack_vectors (how many), payload_suggestions
VulnWide ==
    [vulnerability_type |-> "sql_injection", location |-> "/login", confidence |-> 90,
     attack_vectors |-> 24, payload_suggestions |-> <<"' OR 1=1--", "admin'--">>]
VulnLow ==
    [vulnerability_type |-> "command_injection", location |-> "/ping", confidence |-> 30,
     attack_vectors |-> 1, payload_suggestions |-> <<"; id", "| id">>]

\* what one call of _identify_vulnerabilities returns
VulnBatches == { <<>>, <<VulnLow, VulnWide>> }

\* how many generic form tasks one population adds (named form fields times
\* the plan's sql_injection payloads)
GenericCounts == {0, 1}

\* Texts (response bodies, flag formats, flags) are sequences of
\* one-character strings; the empty sequence also stands for None
TxtFlag == <<"f", "l", "a", "g">>
TxtFLAG == <<"F", "L", "A", "G">>
TxtCTF == <<"C", "T", "F">>
TxtKey == <<"k", "e", "y">>
TxtToken == <<"{", "a", "b", "c", "_", "1", "2", "3", "}">>

\* challenge.flag_format values: the dataclass default and flag{*}
FlagFormats == { <<>>, TxtFlag \o <<"{", "*", "}">> }

\* Response bodies: empty, without a flag, with flag{abc_123}
Contents == { <<>>, <<"o", "k">>, TxtFlag \o TxtToken }

\* What the HTTP request of a dispatched task does: raises, or answers
Responses ==
    { [error |-> TRUE, status_code |-> 0, content |-> <<>>] }
    \cup { [error |-> FALSE, status_code |-> c, content |-> b] : c \in {200, 500}, b \in Contents }

\* re.IGNORECASE on the letters that occur in the texts
Lower(ch) ==
    CASE ch = "F" -> "f" [] ch = "L" -> "l" [] ch = "A" -> "a" [] ch = "G" -> "g"
      [] ch = "C" -> "c" [] ch = "T" -> "t" [] OTHER -> ch

\* the characters of [A-Za-z0-9_] that occur in the texts
WordChars ==
    {"f", "l", "a", "g", "F", "L", "A", "G", "C", "T", "c", "t", "k", "e", "y",
     "o", "b", "x", "_", "1", "2", "3"}

\* Elements of a compiled pattern: a literal character, [^}]+ and [A-Za-z0-9_]+
Lit(s) == [ i \in 1..Len(s) |-> [kind |-> "lit", ch |-> s[i]] ]
NotClose == [kind |-> "not_close", ch |-> ""]
Word == [kind |-> "word", ch |-> ""]
Braced == Lit(<<"{">>) \o <<NotClose>> \o Lit(<<"}">>)

InClass(kind, ch) == IF kind = "word" THEN ch \in WordChars ELSE ch # "}"

\* flag_format.replace("{", r"\{").replace("}", r"\}").replace("*", r"[^}]+"):
\* braces become literals, the wildcard the class; any other character stays
\* as it is in the regex, and an unclosed "(" makes re raise re.error
FormatPattern(fmt) ==
    [raises |-> \E i \in 1..Len(fmt) : fmt[i] = "(",
     elems  |-> [ i \in 1..Len(fmt) |->
                    IF fmt[i] = "*" THEN NotClose ELSE [kind |-> "lit", ch |-> fmt[i]] ]]

\* r"CTF\{[^}]+\}", r"flag\{[^}]+\}", r"FLAG\{[^}]+\}", r"[A-Za-z0-9_]+\{[^}]+\}"
GenericPatterns ==
    << [raises |-> FALSE, elems |-> Lit(TxtCTF) \o Braced],
       [raises |-> FALSE, elems |-> Lit(TxtFlag) \o Braced],
       [raises |-> FALSE, elems |-> Lit(TxtFLAG) \o Braced],
       [raises |-> FALSE, elems |-> <<Word>> \o Braced] >>

\* the list patterns of _extract_flag with the generic shapes tried first
patternsGenericFirst(fmt) == GenericPatterns \o <<FormatPattern(fmt)>>

\* the list patterns of _extract_flag
patterns(fmt) == <<FormatPattern(fmt)>> \o GenericPatterns

\* how many characters of the class follow from position pos
Run(kind, text, pos) ==
    LET ns == { n \in 0..(Len(text) + 1 - pos) :
                  \A i \in pos..(pos + n - 1) : InClass(kind, text[i]) }
    IN  CHOOSE n \in ns : \A m \in ns : m <= n

\* the regex engine at one start position: the position after the match of
\* elems[k..] from pos, the classes taking as much as still lets the rest
\* match; -1 when there is no match
RECURSIVE MatchEnd(_, _, _, _)
MatchEnd(elems, k, text, pos) ==
    IF k > Len(elems) THEN pos
    ELSE IF elems[k].kind = "lit"
    THEN IF pos <= Len(text) /\ Lower(text[pos]) = Lower(elems[k].ch)
         THEN MatchEnd(elems, k + 1, text, pos + 1)
         ELSE -1
    ELSE LET after == [ n \in 1..Run(elems[k].kind, text, pos) |->
                          MatchEnd(elems, k + 1, text, pos + n) ]
             ok    == { n \in DOMAIN after : after[n] # -1 }
         IN  IF ok = {} THEN -1
             ELSE after[CHOOSE n \in ok : \A m \in ok : m <= n]

\* re.findall(pattern, content, re.IGNORECASE)[0]: the leftmost match, <<>> when none
FirstMatch(elems, text) ==
    LET ends   == [ s \in 1..Len(text) |-> MatchEnd(elems, 1, text, s) ]
        starts == { s \in 1..Len(text) : ends[s] # -1 }
    IN  IF starts = {} THEN <<>>
        ELSE LET s == CHOOSE x \in starts : \A y \in starts : x <= y
             IN  SubSeq(text, s, ends[s] - 1)

\* for pattern in patterns: try findall, return matches[0]; except re.error: continue
RECURSIVE FirstOfPatterns(_, _, _)
FirstOfPatterns(ps, i, text) ==
    IF i > Len(ps) THEN <<>>
    ELSE LET matches == IF ps[i].raises THEN <<>> ELSE FirstMatch(ps[i].elems, text)
         IN  IF matches # <<>> THEN matches ELSE FirstOfPatterns(ps, i + 1, text)

\* _extract_flag: None for an empty body or an empty format, else the first
\* match of the first pattern that matches
_extract_flag(text, fmt) ==
    IF text = <<>> \/ fmt = <<>> THEN <<>> ELSE FirstOfPatterns(patterns(fmt), 1, text)

\* the fuzz tasks one vulnerability gives: for attack_vector, for payload
TasksOf(v) ==
    LET np == Len(v.payload_suggestions) IN
    [ i \in 1..(v.attack_vectors * np) |->
        [vulnerability_type |-> v.vulnerability_type,
         location |-> v.location,
         attack_vector |-> ((i - 1) \div np) + 1,
         payload |-> v.payload_suggestions[((i - 1) % np) + 1],
         confidence |-> v.confidence] ]

RECURSIVE VulnTasks(_, _)
VulnTasks(vs, i) ==
    IF i > Len(vs) THEN <<>> ELSE TasksOf(vs[i]) \o VulnTasks(vs, i + 1)

\* the generic form tasks: sql_injection, confidence 0.5
GenericTasks(g) ==
    [ i \in 1..g |->
        [vulnerability_type |-> "sql_injection", location |-> "/form",
         attack_vector |-> 0, payload |-> "' OR '1'='1", confidence |-> 50] ]

\* list.sort(key=confidence, reverse=True): stable, highest confidence
\* first, so the tasks of one confidence keep their order, level by level
RECURSIVE SortLevels(_, _)
SortLevels(q, levels) ==
    IF levels = {} THEN <<>>
    ELSE LET top == CHOOSE c \in levels : \A d \in levels : d <= c
         IN  SelectSeq(q, LAMBDA t : t.confidence = top) \o SortLevels(q, levels \ {top})

\* a sort that is descending but turns the order of equal confidences round
Reverse(q) == [ i \in 1..Len(q) |-> q[Len(q) + 1 - i] ]

SortByConfidenceTiesReversed(q) ==
    SortLevels(Reverse(q), { q[i].confidence : i \in 1..Len(q) })

SortByConfidence(q) == SortLevels(q, { q[i].confidence : i \in 1..Len(q) })

\* a population that sorts the new tasks only and leaves the queued ones ahead
PopulatedBehindQueue(queue, vs, g) == queue \o SortByConfidence(VulnTasks(vs, 1) \o GenericTasks(g))

\* _populate_fuzzing_queue
PopulatedQueue(queue, vs, g) == SortByConfidence(queue \o VulnTasks(vs, 1) \o GenericTasks(g))

\* thresholds of the routing functions and of the fuzzer
MAX_PAGES == 50
MAX_ATTEMPTS == 100
FUZZER_MAX_ATTEMPTS == 100
PAGE_FLOOR == 10
VULN_FLOOR == 3

\* bounds on what the target and the model supply over one run
MaxCrawled == 50
MaxVulns == 4
MaxQueue == 103
MaxGeneric == 1

----------------------------------------------------------------------------
(* Stage nodes and routing functions *)

AtNode(n) == node = n /\ wpc = "node"
AtRoute(n) == node = n /\ wpc = "route"

\* _crawler_node with CrawlerAgent.execute: the crawl adds k pages; the
\* executor either completes (progress 1.0) or logs an error and leaves the
\* progress of its last log_progress call
CrawlerNode ==
    /\ AtNode("crawler")
    /\ current_agent' = "crawler"
    /\ workflow_status' = "crawling"
    /\ \/ \E k \in PageBatches :
            /\ crawled_pages + k <= MaxCrawled
            /\ crawled_pages' = crawled_pages + k
            /\ \/ /\ progress' = [progress EXCEPT !["crawler"] = 100]
                  /\ completed_agents' = completed_agents \cup {"crawler"}
               \/ /\ progress' = [progress EXCEPT !["crawler"] = 30]
                  /\ UNCHANGED completed_agents
       \/ /\ progress' = [progress EXCEPT !["crawler"] = 10]
          /\ UNCHANGED <<crawled_pages, completed_agents>>
    /\ wpc' = "route"
    /\ UNCHANGED <<node, vulnerabilities, fuzzing_queue, exploit_attempts, flags_found,
                   attempted_payloads, flag_format, convVars, invVars, extVars, restVars>>

\* _should_continue_crawling looking at the page count only
ShouldContinueCrawlingPagesOnly ==
    IF crawled_pages < MAX_PAGES THEN "crawler" ELSE "summarizer"

\* _should_continue_crawling
ShouldContinueCrawling ==
    IF crawled_pages < MAX_PAGES /\ progress["crawler"] < 100 THEN "crawler" ELSE "summarizer"

CrawlerRoute ==
    /\ AtRoute("crawler")
    /\ node' = ShouldContinueCrawling
    /\ wpc' = "node"
    /\ UNCHANGED <<workflow_status, current_agent, completed_agents, progress, crawled_pages,
                   vulnerabilities, fuzzing_queue, exploit_attempts, flags_found,
                   attempted_payloads, flag_format, convVars, invVars, extVars, restVars>>

\* _summarizer_node with SummarizerAgent.execute, then the edge to threat_model
SummarizerNode ==
    /\ AtNode("summarizer")
    /\ current_agent' = "summarizer"
    /\ workflow_status' = "analyzing"
    /\ \/ /\ progress' = [progress EXCEPT !["summarizer"] = 100]
          /\ completed_agents' = completed_agents \cup {"summarizer"}
       \/ /\ progress' = [progress EXCEPT !["summarizer"] = 10]
          /\ UNCHANGED completed_agents
    /\ node' = "threat_model"
    /\ UNCHANGED <<wpc, crawled_pages, vulnerabilities, fuzzing_queue, exploit_attempts,
                   flags_found, attempted_payloads, flag_format, convVars, invVars, extVars, restVars>>

\* _threat_model_node with ThreatModelAgent.execute: the model call may
\* raise before anything is identified; otherwise the identified
\* vulnerabilities are added, and then either the queue is populated and the
\* stage completes, or the plan or the population raises and the error is
\* logged with the progress left at 0.8
ThreatModelNode ==
    /\ AtNode("threat_model")
    /\ current_agent' = "threat_model"
    /\ workflow_status' = "modeling_threats"
    /\ \/ /\ progress' = [progress EXCEPT !["threat_model"] = 10]
          /\ UNCHANGED <<vulnerabilities, fuzzing_queue, completed_agents>>
       \/ \E batch \in VulnBatches :
            /\ Len(vulnerabilities) + Len(batch) <= MaxVulns
            /\ vulnerabilities' = vulnerabilities \o batch
            /\ \/ \E g \in GenericCounts :
                    /\ g > 0 => crawled_pages > 0
                    /\ Len(SelectSeq(fuzzing_queue, LAMBDA t : t.attack_vector = 0)) + g
                          <= MaxGeneric
                    /\ Len(fuzzing_queue) + Len(VulnTasks(vulnerabilities', 1)) + g <= MaxQueue
                    /\ fuzzing_queue' = PopulatedQueue(fuzzing_queue, vulnerabilities', g)
                    /\ progress' = [progress EXCEPT !["threat_model"] = 100]
                    /\ completed_agents' = completed_agents \cup {"threat_model"}
               \/ /\ progress' = [progress EXCEPT !["threat_model"] = 80]
                  /\ UNCHANGED <<fuzzing_queue, completed_agents>>
    /\ wpc' = "route"
    /\ UNCHANGED <<node, crawled_pages, exploit_attempts, flags_found,
                   attempted_payloads, flag_format, convVars, invVars, extVars, restVars>>

\* _should_continue_threat_modeling looking at the progress only
ShouldContinueThreatModelingProgressOnly ==
    IF progress["threat_model"] < 100 THEN "threat_model" ELSE "fuzzer"

\* _should_continue_threat_modeling
ShouldContinueThreatModeling ==
    IF Len(vulnerabilities) = 0 \/ progress["threat_model"] < 100 THEN "threat_model" ELSE "fuzzer"

ThreatModelRoute ==
    /\ AtRoute("threat_model")
    /\ node' = ShouldContinueThreatModeling
    /\ wpc' = "node"
    /\ UNCHANGED <<workflow_status, current_agent, completed_agents, progress, crawled_pages,
                   vulnerabilities, fuzzing_queue, exploit_attempts, flags_found,
                   attempted_payloads, flag_format, convVars, invVars, extVars, restVars>>

\* an attempt that carries the extracted flag and keeps the status FAILED
AttemptFlagNotSuccess(resp) ==
    LET flag == IF resp.error THEN <<>> ELSE _extract_flag(resp.content, flag_format)
    IN  [status |-> "failed",
         flag_found |-> flag,
         status_code |-> resp.status_code]

\* _execute_fuzzing_task: the ExploitAttempt recorded for a task and a response
AttemptFor(resp) ==
    LET flag == IF resp.error THEN <<>> ELSE _extract_flag(resp.content, flag_format)
    IN  [status |-> IF flag # <<>> THEN "success" ELSE "failed",
         flag_found |-> flag,
         status_code |-> resp.status_code]

\* the alternate payloads of _generate_adaptive_fuzzing
AdditionalPayloads ==
    <<"' UNION SELECT 1,2,3--", "' OR 1=1 LIMIT 1--", "admin'/*", "1' OR '1'='1", "x' OR 1=1 OR 'x'='y">>

\* _generate_adaptive_fuzzing: the new payloads, in list order
AdaptivePayloads(task, result) ==
    IF result.status = "failed" THEN <<>>
    ELSE IF result.status_code = 200 /\ task.vulnerability_type = "sql_injection"
    THEN SelectSeq(AdditionalPayloads, LAMBDA pl : pl \notin attempted_payloads)
    ELSE <<>>

AdaptiveTasks(task, result) ==
    LET pls == AdaptivePayloads(task, result) IN
    [ i \in 1..Len(pls) |-> [task EXCEPT !.payload = pls[i], !.confidence = 80] ]

\* progress = 1.0 - len(queue) / max(self.max_attempts, len(queue)), in hundredths
FuzzProgress(q) == 100 - ((100 * Len(q)) \div Max(FUZZER_MAX_ATTEMPTS, Len(q)))

\* list.pop() without an index: the last entry is taken
PopLast(q) == [task |-> q[Len(q)], rest |-> SubSeq(q, 1, Len(q) - 1)]

\* state.fuzzing_queue.pop(0): the head is taken, the rest stays in order
Pop(q) == [task |-> Head(q), rest |-> Tail(q)]

\* _fuzzer_node with FuzzerAgent.execute, for the response the dispatched task gets
FuzzerExecute(resp) ==
    /\ AtNode("fuzzer")
    /\ current_agent' = "fuzzer"
    /\ IF fuzzing_queue = <<>>
       THEN /\ progress' = [progress EXCEPT !["fuzzer"] = 100]
            /\ workflow_status' = "fuzzing"
            /\ UNCHANGED <<fuzzing_queue, exploit_attempts, flags_found,
                           attempted_payloads, completed_agents>>
       ELSE LET fuzz_task == Pop(fuzzing_queue).task
                result    == AttemptFor(resp)
                adaptive  == AdaptiveTasks(fuzz_task, result)
                queue1    == IF result.flag_found # <<>> THEN Pop(fuzzing_queue).rest
                             ELSE Pop(fuzzing_queue).rest \o adaptive
                attempts1 == Append(exploit_attempts,
                                    [attack_vector |-> fuzz_task.attack_vector,
                                     payload |-> fuzz_task.payload,
                                     status |-> result.status,
                                     flag_found |-> result.flag_found])
                done      == Len(attempts1) >= FUZZER_MAX_ATTEMPTS \/ queue1 = <<>>
            IN  /\ exploit_attempts' = attempts1
                /\ flags_found' = IF result.flag_found # <<>>
                                  THEN Append(flags_found, result.flag_found) ELSE flags_found
                /\ fuzzing_queue' = queue1
                /\ attempted_payloads' =
                       IF result.flag_found # <<>> THEN attempted_payloads
                       ELSE attempted_payloads \cup
                            { AdaptivePayloads(fuzz_task, result)[i] :
                                i \in 1..Len(AdaptivePayloads(fuzz_task, result)) }
                /\ workflow_status' = IF result.flag_found # <<>> THEN "completed" ELSE "fuzzing"
                /\ progress' = [progress EXCEPT !["fuzzer"] =
                       IF done \/ result.flag_found # <<>> THEN 100 ELSE FuzzProgress(queue1)]
                /\ completed_agents' =
                       IF done THEN completed_agents \cup {"fuzzer"} ELSE completed_agents
    /\ wpc' = "route"
    /\ UNCHANGED <<node, crawled_pages, vulnerabilities, flag_format, convVars, invVars, extVars, restVars>>

FuzzerNode == \E resp \in Responses : FuzzerExecute(resp)

\* _should_continue_fuzzing: the edge taken and the status it leaves
ShouldContinueFuzzingQueueFirst ==
    IF Len(exploit_attempts) < MAX_ATTEMPTS /\ Len(fuzzing_queue) > 0
    THEN [to |-> "fuzzer", status |-> workflow_status]
    ELSE IF flags_found # <<>> THEN [to |-> "END", status |-> "completed"]
    ELSE IF Len(fuzzing_queue) = 0 THEN [to |-> "coordinator", status |-> workflow_status]
    ELSE [to |-> "END", status |-> "failed"]

ShouldContinueFuzzingIgnoringAttempts ==
    IF flags_found # <<>> THEN [to |-> "END", status |-> "completed"]
    ELSE IF Len(fuzzing_queue) > 0
    THEN [to |-> "fuzzer", status |-> workflow_status]
    ELSE IF Len(fuzzing_queue) = 0 THEN [to |-> "coordinator", status |-> workflow_status]
    ELSE [to |-> "END", status |-> "failed"]

ShouldContinueFuzzing ==
    IF flags_found # <<>> THEN [to |-> "END", status |-> "completed"]
    ELSE IF Len(exploit_attempts) < MAX_ATTEMPTS /\ Len(fuzzing_queue) > 0
    THEN [to |-> "fuzzer", status |-> workflow_status]
    ELSE IF Len(fuzzing_queue) = 0 THEN [to |-> "coordinator", status |-> workflow_status]
    ELSE [to |-> "END", status |-> "failed"]

FuzzerRoute ==
    /\ AtRoute("fuzzer")
    /\ node' = ShouldContinueFuzzing.to
    /\ workflow_status' = ShouldContinueFuzzing.status
    /\ wpc' = "node"
    /\ UNCHANGED <<current_agent, completed_agents, progress, crawled_pages,
                   vulnerabilities, fuzzing_queue, exploit_attempts, flags_found,
                   attempted_payloads, flag_format, convVars, invVars, extVars, restVars>>

\* _coordinator_node
CoordinatorNode ==
    /\ AtNode("coordinator")
    /\ current_agent' = "coordinator"
    /\ wpc' = "route"
    /\ UNCHANGED <<node, workflow_status, completed_agents, progress, crawled_pages,
                   vulnerabilities, fuzzing_queue, exploit_attempts, flags_found,
                   attempted_payloads, flag_format, convVars, invVars, extVars, restVars>>

\* _coordinator_decision with the vulnerability floor read as inclusive
CoordinatorDecisionFloorInclusive ==
    IF flags_found # <<>> THEN [to |-> "END", status |-> "completed"]
    ELSE IF crawled_pages < PAGE_FLOOR THEN [to |-> "crawler", status |-> workflow_status]
    ELSE IF Len(vulnerabilities) <= VULN_FLOOR THEN [to |-> "threat_model", status |-> workflow_status]
    ELSE IF Len(vulnerabilities) > 0 /\ Len(fuzzing_queue) = 0
    THEN [to |-> "fuzzer", status |-> workflow_status]
    ELSE [to |-> "END", status |-> "failed"]

\* _coordinator_decision with the vulnerability rule ahead of the page rule
CoordinatorDecisionVulnsFirst ==
    IF flags_found # <<>> THEN [to |-> "END", status |-> "completed"]
    ELSE IF Len(vulnerabilities) < VULN_FLOOR THEN [to |-> "threat_model", status |-> workflow_status]
    ELSE IF crawled_pages < PAGE_FLOOR THEN [to |-> "crawler", status |-> workflow_status]
    ELSE IF Len(vulnerabilities) > 0 /\ Len(fuzzing_queue) = 0
    THEN [to |-> "fuzzer", status |-> workflow_status]
    ELSE [to |-> "END", status |-> "failed"]

\* _coordinator_decision: the edge taken and the status it leaves
CoordinatorDecision ==
    IF flags_found # <<>> THEN [to |-> "END", status |-> "completed"]
    ELSE IF crawled_pages < PAGE_FLOOR THEN [to |-> "crawler", status |-> workflow_status]
    ELSE IF Len(vulnerabilities) < VULN_FLOOR THEN [to |-> "threat_model", status |-> workflow_status]
    ELSE IF Len(vulnerabilities) > 0 /\ Len(fuzzing_queue) = 0
    THEN [to |-> "fuzzer", status |-> workflow_status]
    ELSE [to |-> "END", status |-> "failed"]

CoordinatorRoute ==
    /\ AtRoute("coordinator")
    /\ node' = CoordinatorDecision.to
    /\ workflow_status' = CoordinatorDecision.status
    /\ wpc' = "node"
    /\ UNCHANGED <<current_agent, completed_agents, progress, crawled_pages,
                   vulnerabilities, fuzzing_queue, exploit_attempts, flags_found,
                   attempted_payloads, flag_format, convVars, invVars, extVars, restVars>>

\* MockCompiledGraph.astream, the graph used when the graph library cannot
\* be imported: it yields the initial state once and runs no node
MockAstream ==
    /\ AtNode("mock")
    /\ node' = "END"
    /\ UNCHANGED <<wpc, workflow_status, current_agent, completed_agents, progress,
                   crawled_pages, vulnerabilities, fuzzing_queue, exploit_attempts,
                   flags_found, attempted_payloads, flag_format, convVars, invVars, extVars, restVars>>

\* solve_ctf: the compiled graph is entered at the crawler with the initial
\* state, the fallback graph at its only step
EntryPoints == {"crawler", "mock"}

Init ==
    /\ node \in EntryPoints
    /\ wpc = "node"
    /\ flag_format \in FlagFormats
    /\ FreshState
    /\ ConvIdle
    /\ InvokeIdle
    /\ ExtractIdle
    /\ DelayIdle

Next ==
    \/ CrawlerNode
    \/ CrawlerRoute
    \/ SummarizerNode
    \/ ThreatModelNode
    \/ ThreatModelRoute
    \/ FuzzerNode
    \/ FuzzerRoute
    \/ CoordinatorNode
    \/ CoordinatorRoute
    \/ MockAstream

Spec == Init /\ [][Next]_vars

\* the graph driver runs the next node or edge whenever there is one
FairSpec == Init /\ [][Next]_vars /\ WF_vars(Next)

\* stop_challenge of the web front end: the session of a started run stays
\* in active_sessions, and the request sets its status to failed
stop_challenge ==
    /\ workflow_status # "failed"
    /\ workflow_status' = "failed"
    /\ UNCHANGED <<node, wpc, current_agent, completed_agents, progress, crawled_pages,
                   vulnerabilities, fuzzing_queue, exploit_attempts, flags_found,
                   attempted_payloads, flag_format, convVars, invVars, extVars, restVars>>

NextWeb ==
    \/ Next
    \/ stop_challenge

\* a run started from the web front end
SpecWeb == Init /\ [][NextWeb]_vars

----------------------------------------------------------------------------
(* Workflow termination and the Fuzz step *)

\* C7 (as claimed): every run of the workflow eventually reaches the
\* terminal node, whatever the target and the stages do
C7_Terminates == <>(node = "END")

\* a state from which the routing can go round for ever: threat modelling
\* has completed without any vulnerability, so its edge re-enters it
C7_LoopState ==
    /\ AtRoute("threat_model")
    /\ vulnerabilities = <<>>
    /\ progress["threat_model"] = 100

\* C8: a flag is recorded only by a Fuzz step, and the step that follows a
\* recorded flag goes to END with status completed and dispatches nothing:
\* the queue and the recorded attempts stay as they are
C8_FlagEndsRun ==
    [][ /\ flags_found' # flags_found =>
            (AtNode("fuzzer") /\ node' = "fuzzer" /\ wpc' = "route")
        /\ flags_found # <<>> =>
            /\ node' = "END"
            /\ workflow_status' = "completed"
            /\ fuzzing_queue' = fuzzing_queue
            /\ exploit_attempts' = exploit_attempts
            /\ flags_found' = flags_found ]_vars

\* the run has ended on a flag found by the hundredth attempt, with tasks
\* still queued
C8_Witness ==
    /\ node = "END"
    /\ flags_found # <<>>
    /\ Len(exploit_attempts) >= MAX_ATTEMPTS
    /\ fuzzing_queue # <<>>

\* C9 (as claimed): whenever flags_found is non-empty the workflow status
\* is completed, and a failed status comes with no flag
C9_FlagsImplyCompleted ==
    /\ flags_found # <<>> => workflow_status = "completed"
    /\ workflow_status = "failed" => flags_found = <<>>

\* the state the stop request leaves behind on a run that has found a flag
C9_StoppedWithFlag ==
    /\ node = "END"
    /\ flags_found # <<>>
    /\ workflow_status = "failed"

\* C10: the step after a Fuzz step that left no flag re-enters the fuzzer
\* exactly when fewer than MAX_ATTEMPTS attempts are recorded and the queue
\* is non-empty, and goes to the coordinator whenever the queue is empty
C10_FuzzRouting ==
    [][ (AtRoute("fuzzer") /\ flags_found = <<>>) =>
          /\ node' = "fuzzer" <=>
                (Len(exploit_attempts) < MAX_ATTEMPTS /\ fuzzing_queue # <<>>)
          /\ fuzzing_queue = <<>> => node' = "coordinator" ]_vars

\* the coordinator has been entered from a Fuzz step that emptied the queue
\* with the attempts already exhausted and no flag
C10_Witness ==
    /\ AtNode("coordinator")
    /\ current_agent = "fuzzer"
    /\ flags_found = <<>>
    /\ fuzzing_queue = <<>>
    /\ Len(exploit_attempts) >= MAX_ATTEMPTS

----------------------------------------------------------------------------
(* Routing after Fuzz, Coordinate, Crawl and ThreatModel *)

\* C11 (as claimed): the step after a Fuzz step that leaves the attempts
\* exhausted, the queue empty and no flag goes to END with status failed
C11_ExhaustedEndsFailed ==
    [][ (AtRoute("fuzzer") /\ flags_found = <<>> /\ fuzzing_queue = <<>>
            /\ Len(exploit_attempts) >= MAX_ATTEMPTS) =>
          (node' = "END" /\ workflow_status' = "failed") ]_vars

\* a Fuzz step has just dispatched the last queued task as the hundredth
\* attempt, without a flag
C11_Witness ==
    /\ AtRoute("fuzzer")
    /\ flags_found = <<>>
    /\ fuzzing_queue = <<>>
    /\ Len(exploit_attempts) >= MAX_ATTEMPTS
    /\ progress["fuzzer"] = 100

\* The coordinator's decision as a function of the state it is given: the
\* page count, the vulnerabilities, the queue and the flags are drawn from
\* the sets below and the coordinator node and its edge are applied
CoordinatorPages == {0, 9, 10, 25}
CoordinatorVulns == { SubSeq(<<VulnLow, VulnWide, VulnLow, VulnWide>>, 1, n) : n \in 0..4 }
CoordinatorQueues == { <<>>, PopulatedQueue(<<>>, <<VulnLow>>, 1) }
CoordinatorFlags == { <<>>, << TxtFlag \o TxtToken >> }

InitCoordinator ==
    /\ node = "coordinator"
    /\ wpc = "node"
    /\ flag_format \in FlagFormats
    /\ current_agent = "fuzzer"
    /\ completed_agents = {"crawler", "summarizer", "threat_model", "fuzzer"}
    /\ progress = [a \in AgentTypes |-> IF a = "coordinator" THEN 0 ELSE 100]
    /\ crawled_pages \in CoordinatorPages
    /\ vulnerabilities \in CoordinatorVulns
    /\ fuzzing_queue \in CoordinatorQueues
    /\ flags_found \in CoordinatorFlags
    /\ workflow_status = IF flags_found = <<>> THEN "fuzzing" ELSE "completed"
    /\ exploit_attempts =
          IF flags_found = <<>>
          THEN << [attack_vector |-> 1, payload |-> "; id",
                   status |-> "failed", flag_found |-> <<>>] >>
          ELSE << [attack_vector |-> 1, payload |-> "; id",
                   status |-> "success", flag_found |-> flags_found[1]] >>
    /\ attempted_payloads = {}
    /\ ConvIdle
    /\ InvokeIdle
    /\ ExtractIdle
    /\ DelayIdle

NextCoordinator ==
    \/ CoordinatorNode
    \/ CoordinatorRoute

SpecCoordinator == InitCoordinator /\ [][NextCoordinator]_vars

\* C12: with no flag recorded the coordinator's edge goes to the crawler
\* when fewer than PAGE_FLOOR pages are crawled; otherwise to threat
\* modelling when fewer than VULN_FLOOR vulnerabilities are recorded;
\* otherwise to the fuzzer when a vulnerability exists and the queue is
\* empty; otherwise to END with status failed
C12_CoordinatorOrder ==
    [][ (AtRoute("coordinator") /\ flags_found = <<>>) =>
          /\ crawled_pages < PAGE_FLOOR => node' = "crawler"
          /\ (crawled_pages >= PAGE_FLOOR /\ Len(vulnerabilities) < VULN_FLOOR) =>
                node' = "threat_model"
          /\ (crawled_pages >= PAGE_FLOOR /\ Len(vulnerabilities) >= VULN_FLOOR
                /\ Len(vulnerabilities) >= 1 /\ fuzzing_queue = <<>>) =>
                node' = "fuzzer"
          /\ (crawled_pages >= PAGE_FLOOR /\ Len(vulnerabilities) >= VULN_FLOOR
                /\ ~(Len(vulnerabilities) >= 1 /\ fuzzing_queue = <<>>)) =>
                (node' = "END" /\ workflow_status' = "failed")
          /\ node' # "END" => workflow_status' = workflow_status ]_vars

\* the coordinator has ended a run as failed: pages and vulnerabilities are
\* over their floors and tasks are still queued
C12_Witness ==
    /\ node = "END"
    /\ current_agent = "coordinator"
    /\ workflow_status = "failed"
    /\ flags_found = <<>>
    /\ crawled_pages >= PAGE_FLOOR
    /\ Len(vulnerabilities) >= VULN_FLOOR
    /\ fuzzing_queue # <<>>

\* C13 (as claimed): with enough pages, no flag, at least one vulnerability
\* and an empty queue the coordinator's edge goes to the fuzzer
C13_AnyVulnerabilityToFuzz ==
    [][ (AtRoute("coordinator") /\ flags_found = <<>> /\ crawled_pages >= PAGE_FLOOR
            /\ Len(vulnerabilities) >= 1 /\ fuzzing_queue = <<>>) =>
          node' = "fuzzer" ]_vars

\* C13: the same with at least VULN_FLOOR vulnerabilities; with fewer the
\* edge goes back to threat modelling
C13_FloorVulnerabilitiesToFuzz ==
    [][ (AtRoute("coordinator") /\ flags_found = <<>> /\ crawled_pages >= PAGE_FLOOR
            /\ fuzzing_queue = <<>>) =>
          /\ Len(vulnerabilities) >= VULN_FLOOR => node' = "fuzzer"
          /\ Len(vulnerabilities) < VULN_FLOOR => node' = "threat_model" ]_vars

\* the coordinator has sent a run with exactly VULN_FLOOR vulnerabilities and
\* an empty queue to the fuzzer
C13_Witness ==
    /\ AtNode("fuzzer")
    /\ current_agent = "coordinator"
    /\ flags_found = <<>>
    /\ crawled_pages >= PAGE_FLOOR
    /\ Len(vulnerabilities) = VULN_FLOOR
    /\ fuzzing_queue = <<>>

\* C14: the step after a Crawl step re-enters the crawler exactly when fewer
\* than MAX_PAGES pages are crawled and the crawler's progress is below 1,
\* and goes to the summarizer otherwise, whether or not the executor failed
C14_CrawlRouting ==
    [][ AtRoute("crawler") =>
          /\ node' = "crawler" <=>
                (crawled_pages < MAX_PAGES /\ progress["crawler"] < 100)
          /\ node' # "crawler" => node' = "summarizer"
          /\ workflow_status' = workflow_status ]_vars

\* the summarizer has been entered after a Crawl step that failed (progress
\* below 1, stage not completed) with the page ceiling reached
C14_Witness ==
    /\ AtNode("summarizer")
    /\ current_agent = "crawler"
    /\ progress["crawler"] < 100
    /\ "crawler" \notin completed_agents
    /\ crawled_pages >= MAX_PAGES

\* C15: the step after a ThreatModel step re-enters threat modelling exactly
\* when no vulnerability is recorded or the stage's progress is below 1, and
\* goes to the fuzzer otherwise; the fuzzer is never entered from threat
\* modelling with zero vulnerabilities
C15_ThreatModelRouting ==
    [][ AtRoute("threat_model") =>
          /\ node' = "threat_model" <=>
                (vulnerabilities = <<>> \/ progress["threat_model"] < 100)
          /\ node' # "threat_model" => (node' = "fuzzer" /\ vulnerabilities' # <<>>)
          /\ workflow_status' = workflow_status ]_vars

\* threat modelling has been re-entered after a step that completed and
\* queued a task but recorded no vulnerability
C15_Witness ==
    /\ AtNode("threat_model")
    /\ current_agent = "threat_model"
    /\ progress["threat_model"] = 100
    /\ vulnerabilities = <<>>
    /\ fuzzing_queue # <<>>

----------------------------------------------------------------------------
(* Terminal states, the queue and the attempt log *)

\* C16 (as claimed): once the status is completed or failed, no later step
\* changes it and no later step is a stage executing (nothing a stage
\* writes changes)
C16_TerminalAbsorbing ==
    [][ (workflow_status = "completed" \/ workflow_status = "failed") =>
          (UNCHANGED <<workflow_status, current_agent, completed_agents, progress,
                       crawled_pages, vulnerabilities, fuzzing_queue, exploit_attempts,
                       flags_found, attempted_payloads>>) ]_vars

\* a run that was stopped while the engine still has a stage to execute
C16_StoppedMidRun ==
    /\ workflow_status = "failed"
    /\ wpc = "node"
    /\ node \in {"crawler", "summarizer", "threat_model", "fuzzer", "coordinator"}

\* the tasks of one confidence, in queue order
AtConfidence(q, c) == SelectSeq(q, LAMBDA t : t.confidence = c)

IsPrefix(p, q) == Len(p) <= Len(q) /\ SubSeq(q, 1, Len(p)) = p

\* a ThreatModel step that populated the queue (the only step that does)
IsPopulation == AtNode("threat_model") /\ progress'["threat_model"] = 100

\* C17: after every population the queue is in descending order of
\* confidence, and the tasks of equal confidence are in insertion order:
\* those already queued first, in their old order, then the tasks made
\* from the vulnerabilities in generation order, then the generic tasks
C17_SortedStable ==
    [][ IsPopulation =>
          /\ \A i \in 1..Len(fuzzing_queue') : \A j \in i..Len(fuzzing_queue') :
                fuzzing_queue'[i].confidence >= fuzzing_queue'[j].confidence
          /\ \E g \in GenericCounts :
               \A c \in { fuzzing_queue'[i].confidence : i \in 1..Len(fuzzing_queue') } :
                  AtConfidence(fuzzing_queue', c) =
                     AtConfidence(fuzzing_queue, c)
                        \o AtConfidence(VulnTasks(vulnerabilities', 1), c)
                        \o AtConfidence(GenericTasks(g), c) ]_vars

\* a population has just put tasks of three confidences in order, the generic
\* task between those of the two vulnerabilities, with many tasks tied
C17_Witness ==
    /\ AtRoute("threat_model")
    /\ progress["threat_model"] = 100
    /\ Len(fuzzing_queue) > 50
    /\ fuzzing_queue[1].confidence = fuzzing_queue[2].confidence
    /\ fuzzing_queue[1] # fuzzing_queue[2]
    /\ \E i \in 2..(Len(fuzzing_queue) - 1) :
          /\ fuzzing_queue[i].attack_vector = 0
          /\ fuzzing_queue[i - 1].confidence > fuzzing_queue[i].confidence
          /\ fuzzing_queue[i].confidence > fuzzing_queue[i + 1].confidence

\* C18: a Fuzz step that starts with a non-empty queue takes exactly the
\* head of the queue, leaving the rest in place, and appends exactly one
\* attempt, the one for that task; a Fuzz step on an empty queue records
\* nothing; and in every step the attempt log only grows, by at most one
C18_OneDispatchPerStep ==
    [][ /\ (AtNode("fuzzer") /\ fuzzing_queue # <<>>) =>
              /\ IsPrefix(Tail(fuzzing_queue), fuzzing_queue')
              /\ Len(exploit_attempts') = Len(exploit_attempts) + 1
              /\ exploit_attempts'[Len(exploit_attempts')].payload = Head(fuzzing_queue).payload
              /\ exploit_attempts'[Len(exploit_attempts')].attack_vector =
                    Head(fuzzing_queue).attack_vector
        /\ (AtNode("fuzzer") /\ fuzzing_queue = <<>>) =>
              (exploit_attempts' = exploit_attempts /\ fuzzing_queue' = <<>>)
        /\ IsPrefix(exploit_attempts, exploit_attempts')
        /\ Len(exploit_attempts') <= Len(exploit_attempts) + 1
        /\ ~AtNode("threat_model") => IsPrefix(fuzzing_queue', fuzzing_queue)
                                         \/ IsPrefix(Tail(fuzzing_queue), fuzzing_queue')
        /\ ~AtNode("fuzzer") => exploit_attempts' = exploit_attempts ]_vars

\* Fuzz steps have dispatched the head tasks one after the other: the log
\* has the first two tasks of the population in order and the queue goes on
\* with later ones
C18_Witness ==
    /\ AtRoute("fuzzer")
    /\ Len(exploit_attempts) = 2
    /\ exploit_attempts[1].payload # exploit_attempts[2].payload
    /\ exploit_attempts[1].attack_vector = exploit_attempts[2].attack_vector
    /\ Len(fuzzing_queue) > 1
    /\ fuzzing_queue[1].attack_vector # exploit_attempts[2].attack_vector

----------------------------------------------------------------------------
(* Flag extraction as a function of the response body and the flag format *)

\* response bodies: up to MaxPieces pieces, one after the other
MaxPieces == 3

TextPieces ==
    { TxtFlag, TxtFLAG, TxtCTF, TxtKey, TxtToken, <<"{", "x">>, <<"{", "}">>, <<"}">>, <<" ">> }

RECURSIVE TextsOf(_)
TextsOf(n) ==
    IF n = 0 THEN { <<>> }
    ELSE LET shorter == TextsOf(n - 1)
         IN  shorter \cup { t \o p : t \in shorter, p \in TextPieces }

ExtractTexts == TextsOf(MaxPieces)

\* flag formats: none, flag{*}, key{*}, and flag(* whose regex does not compile
ExtractFormats ==
    { <<>>,
      TxtFlag \o <<"{", "*", "}">>,
      TxtKey \o <<"{", "*", "}">>,
      TxtFlag \o <<"(", "*">> }

InitExtract ==
    /\ content \in ExtractTexts
    /\ flag_format \in ExtractFormats
    /\ extracted = NotExtracted
    /\ DelayIdle
    /\ node = "idle"
    /\ wpc = "idle"
    /\ FreshState
    /\ ConvIdle
    /\ InvokeIdle

\* flag = self._extract_flag(result.get("response_content", ""), state.challenge.flag_format)
ExtractFlag ==
    /\ ~extracted.called
    /\ extracted' = [called |-> TRUE, flag |-> _extract_flag(content, flag_format)]
    /\ UNCHANGED <<content, convVars, invVars, wfVars, restVars>>

NextExtract == ExtractFlag

SpecExtract == InitExtract /\ [][NextExtract]_vars

\* sub occurs in text from position s
OccursAt(sub, text, s) ==
    /\ s + Len(sub) - 1 <= Len(text)
    /\ SubSeq(text, s, s + Len(sub) - 1) = sub

Contains(text, sub) == \E s \in 1..Len(text) : OccursAt(sub, text, s)

\* text has a brace-delimited token: "{", one or more characters other than
\* "}", then "}"
HasBracedToken(text) ==
    \E i \in 1..Len(text) : \E j \in (i + 2)..Len(text) :
        /\ text[i] = "{"
        /\ text[j] = "}"
        /\ \A k \in (i + 1)..(j - 1) : text[k] # "}"

\* the first generic pattern that matches text, 0 when none does
FirstGeneric(text) ==
    LET hits == { i \in 1..Len(GenericPatterns) :
                    FirstMatch(GenericPatterns[i].elems, text) # <<>> }
    IN  IF hits = {} THEN 0 ELSE CHOOSE i \in hits : \A j \in hits : i <= j

C20_FallbackForEveryFormat ==
    (extracted.called
        /\ (Contains(content, TxtFLAG \o TxtToken) \/ Contains(content, TxtCTF \o TxtToken))) =>
        extracted.flag # <<>>

\* extraction returned None for a body with CTF{abc_123} because the
\* challenge has no flag format
C20_EmptyFormatNoFlag ==
    /\ extracted.called
    /\ flag_format = <<>>
    /\ Contains(content, TxtCTF \o TxtToken)
    /\ extracted.flag = <<>>


----------------------------------------------------------------------------
(* extract_retry_delay on the characters of the error text *)

TxtPleaseRetryIn ==
    <<"P", "l", "e", "a", "s", "e", " ", "r", "e", "t", "r", "y", " ", "i", "n", " ">>
TxtRetryDelay == <<"r", "e", "t", "r", "y", "_", "d", "e", "l", "a", "y">>
TxtSeconds == <<"s", "e", "c", "o", "n", "d", "s", ":">>

\* \d, [\d.] and \s on the characters that occur in the texts
DigitChars == {"0", "1", "2", "3", "4", "5", "6", "7", "8", "9"}
DigitDotChars == DigitChars \cup {"."}
SpaceChars == {" "}

DigitValue(ch) ==
    CASE ch = "0" -> 0 [] ch = "1" -> 1 [] ch = "2" -> 2 [] ch = "3" -> 3 [] ch = "4" -> 4
      [] ch = "5" -> 5 [] ch = "6" -> 6 [] ch = "7" -> 7 [] ch = "8" -> 8 [] ch = "9" -> 9

\* how many characters of the set S follow from position pos
RunOf(S, text, pos) ==
    LET ns == { n \in 0..(Len(text) + 1 - pos) :
                  \A i \in pos..(pos + n - 1) : text[i] \in S }
    IN  CHOOSE n \in ns : \A m \in ns : m <= n

\* lit occurs in text from position pos
LitAt(lit, text, pos) ==
    /\ pos + Len(lit) - 1 <= Len(text)
    /\ SubSeq(text, pos, pos + Len(lit) - 1) = lit

\* r'Please retry in ([\d.]+)s' at start position s: group 1, <<>> when the
\* pattern does not match there. "s" is not in the class, so the class must
\* take its whole run and "s" must follow it
RetryInAt(text, s) ==
    LET from == s + Len(TxtPleaseRetryIn)
        n    == RunOf(DigitDotChars, text, from)
    IN  IF LitAt(TxtPleaseRetryIn, text, s) /\ n >= 1 /\ LitAt(<<"s">>, text, from + n)
        THEN SubSeq(text, from, from + n - 1)
        ELSE <<>>

\* r'retry_delay\s*{\s*seconds:\s*(\d+)' at start position s: group 1, <<>>
\* when the pattern does not match there
RetryDelayAt(text, s) ==
    LET p1 == s + Len(TxtRetryDelay)
        p2 == p1 + RunOf(SpaceChars, text, p1)
        p3 == p2 + 1
        p4 == p3 + RunOf(SpaceChars, text, p3)
        p5 == p4 + Len(TxtSeconds)
        p6 == p5 + RunOf(SpaceChars, text, p5)
        n  == RunOf(DigitChars, text, p6)
    IN  IF /\ LitAt(TxtRetryDelay, text, s)
           /\ LitAt(<<"{">>, text, p2)
           /\ LitAt(TxtSeconds, text, p4)
           /\ n >= 1
        THEN SubSeq(text, p6, p6 + n - 1)
        ELSE <<>>

\* re.search(pattern, error_message).group(1): the leftmost match, <<>> for None
SearchGroup(pattern, text) ==
    LET at     == [ s \in 1..Len(text) |->
                      IF pattern = "retry_in" THEN RetryInAt(text, s) ELSE RetryDelayAt(text, s) ]
        starts == { s \in 1..Len(text) : at[s] # <<>> }
    IN  IF starts = {} THEN <<>>
        ELSE at[CHOOSE s \in starts : \A y \in starts : s <= y]

\* the list patterns of extract_retry_delay
retry_patterns == <<"retry_in", "retry_delay">>

\* for pattern in patterns: the group of the first pattern that matches
RECURSIVE FirstGroup(_, _, _)
FirstGroup(ps, i, text) ==
    IF i > Len(ps) THEN <<>>
    ELSE LET g == SearchGroup(ps[i], text)
         IN  IF g # <<>> THEN g ELSE FirstGroup(ps, i + 1, text)

\* float() accepts the capture: digits with at most one "." and a digit
\* somewhere ("12.5", "30", "30.", ".5"; not ".", "1.2.3")
IsDecimal(g) ==
    /\ \E i \in 1..Len(g) : g[i] \in DigitChars
    /\ Cardinality({ i \in 1..Len(g) : g[i] = "." }) <= 1
    /\ \A i \in 1..Len(g) : g[i] \in DigitDotChars

RECURSIVE DigitsValue(_)
DigitsValue(d) ==
    IF d = <<>> THEN 0
    ELSE 10 * DigitsValue(SubSeq(d, 1, Len(d) - 1)) + DigitValue(d[Len(d)])

RECURSIVE StripZeros(_)
StripZeros(d) ==
    IF d # <<>> /\ d[Len(d)] = "0" THEN StripZeros(SubSeq(d, 1, Len(d) - 1)) ELSE d

\* float(g) as a decimal number: mant / 10^frac with no trailing zero in
\* the fraction
ToFloat(g) ==
    LET dots == { i \in 1..Len(g) : g[i] = "." }
        dot  == IF dots = {} THEN Len(g) + 1 ELSE CHOOSE i \in dots : TRUE
        whole == SubSeq(g, 1, dot - 1)
        part  == StripZeros(SubSeq(g, dot + 1, Len(g)))
    IN  [mant |-> DigitsValue(whole \o part), frac |-> Len(part)]

DEFAULT_RETRY_DELAY == [mant |-> 60, frac |-> 0]

\* extract_retry_delay on the text: the float of the first group, ValueError
\* when float() rejects it, 60.0 when no pattern matches
ExtractRetryDelay(text) ==
    LET g == FirstGroup(retry_patterns, 1, text)
    IN  IF g = <<>> THEN [called |-> TRUE, raises |-> FALSE, delay |-> DEFAULT_RETRY_DELAY]
        ELSE IF IsDecimal(g) THEN [called |-> TRUE, raises |-> FALSE, delay |-> ToFloat(g)]
        ELSE [called |-> TRUE, raises |-> TRUE, delay |-> [mant |-> 0, frac |-> 0]]

\* error texts: up to MaxErrorPieces pieces, one after the other
MaxErrorPieces == 4

ErrorPieces ==
    { TxtPleaseRetryIn,
      TxtPleaseRetryIn \o <<"7", "s">>,
      <<"1", "2", ".", "5">>,
      <<"s">>,
      TxtRetryDelay \o <<" ", "{", " ">> \o TxtSeconds \o <<" ">>,
      TxtRetryDelay \o <<"{">> \o TxtSeconds,
      <<"3", "0">>,
      <<".">>,
      <<" ", "}">> }

RECURSIVE ErrorTextsOf(_)
ErrorTextsOf(n) ==
    IF n = 0 THEN { <<>> }
    ELSE LET shorter == ErrorTextsOf(n - 1)
         IN  shorter \cup { t \o p : t \in shorter, p \in ErrorPieces }

ErrorTexts == ErrorTextsOf(MaxErrorPieces)

InitDelay ==
    /\ error_message \in ErrorTexts
    /\ retry_delay = NotParsed
    /\ LoopIdle
    /\ StagesFresh
    /\ ObserverIdle
    /\ ExtractIdle
    /\ flag_format = <<>>
    /\ node = "idle"
    /\ wpc = "idle"
    /\ FreshState
    /\ ConvIdle
    /\ InvokeIdle

\* retry_delay = extract_retry_delay(error_msg)
ParseDelay ==
    /\ ~retry_delay.called
    /\ retry_delay' = ExtractRetryDelay(error_message)
    /\ UNCHANGED <<error_message, convVars, invVars, wfVars, extVars, loopVars, stageVars, obsVars>>

NextDelay == ParseDelay

SpecDelay == InitDelay /\ [][NextDelay]_vars

Txt125 == <<"1", "2", ".", "5">>
Txt30 == <<"3", "0">>

\* C21 (as claimed): for every error text the function returns a delay: the
\* one captured by "Please retry in X.Xs" when that pattern matches, else
\* the one captured by "retry_delay { seconds: N }" when that matches, else
\* 60; "Please retry in 12.5s" gives 12.5, "retry_delay { seconds: 30 }"
\* gives 30
C21_FirstPatternOrDefault ==
    retry_delay.called =>
        LET g1 == SearchGroup("retry_in", error_message)
            g2 == SearchGroup("retry_delay", error_message)
        IN  /\ ~retry_delay.raises
            /\ (g1 # <<>> /\ IsDecimal(g1)) => retry_delay.delay = ToFloat(g1)
            /\ (g1 = <<>> /\ g2 # <<>>) => retry_delay.delay = ToFloat(g2)
            /\ (g1 = <<>> /\ g2 = <<>>) => retry_delay.delay = DEFAULT_RETRY_DELAY
            /\ error_message = TxtPleaseRetryIn \o Txt125 \o <<"s">> =>
                  retry_delay.delay = [mant |-> 125, frac |-> 1]
            /\ error_message = TxtRetryDelay \o <<" ", "{", " ">> \o TxtSeconds
                                  \o <<" ">> \o Txt30 \o <<" ", "}">> =>
                  retry_delay.delay = [mant |-> 30, frac |-> 0]

\* the text "Please retry in 12.5.s" made float() raise ValueError: no
\* delay was returned
C21_MalformedDelayRaises ==
    /\ retry_delay.called
    /\ retry_delay.raises
    /\ error_message = TxtPleaseRetryIn \o Txt125 \o <<".", "s">>


----------------------------------------------------------------------------
(* The agent loop of src/main.py: run_ctf_solver, the graph agent -> tools -> agent, *)
(* the tools and the browser manager                                                *)

LowerLetters ==
    <<"a", "b", "c", "d", "e", "f", "g", "h", "i", "j", "k", "l", "m",
      "n", "o", "p", "q", "r", "s", "t", "u", "v", "w", "x", "y", "z">>
UpperLetters ==
    <<"A", "B", "C", "D", "E", "F", "G", "H", "I", "J", "K", "L", "M",
      "N", "O", "P", "Q", "R", "S", "T", "U", "V", "W", "X", "Y", "Z">>

\* str.upper() on the characters that occur in the texts
UpperChar(ch) ==
    IF \E i \in 1..26 : LowerLetters[i] = ch
    THEN UpperLetters[CHOOSE i \in 1..26 : LowerLetters[i] = ch]
    ELSE ch

Upper(text) == [ i \in 1..Len(text) |-> UpperChar(text[i]) ]

TxtChallengeSolved ==
    <<"C", "H", "A", "L", "L", "E", "N", "G", "E", " ", "S", "O", "L", "V", "E", "D">>
TxtFLAGOpen == <<"F", "L", "A", "G", "{">>
TxtCTFOpen == <<"C", "T", "F", "{">>
TxtFLAGtest == <<"F", "L", "A", "G", "{", "t", "e", "s", "t", "}">>

\* what the model may say in a reply without tool calls: nothing, a remark,
\* the flag with the solved marker, a lower-case flag
FinalContents ==
    { <<>>,
      <<"n", "o", " ", "i", "d", "e", "a">>,
      TxtFLAGtest \o <<" ">> \o TxtChallengeSolved,
      <<"c", "t", "f", "{", "x", "}">> }

\* the tools, one of each kind: navigate_to_url needs the browser session,
\* fetch_contents the HTTP library only, run_ffuf the browser session and a
\* subprocess
ToolNames == {"navigate_to_url", "fetch_contents", "run_ffuf"}

AIMessage(tool, text) ==
    [type |-> "AIMessage", tool_calls |-> tool, content |-> text, error |-> ""]

\* the text a tool returns: its result, or the description of the exception
\* it caught (error "tool"), which for a failed get_driver is the
\* description of the driver failure (error "driver")
ToolMessage(tool, err) ==
    [type |-> "ToolMessage", tool_calls |-> "",
     content |-> IF err # "" THEN <<"E", "r", "r", "o", "r">>
                 ELSE IF tool = "navigate_to_url" THEN <<"U", "R", "L", ":">>
                 ELSE IF tool = "run_ffuf" THEN <<"f", "f", "u", "f">>
                 ELSE <<"S", "t", "a", "t", "u", "s">>,
     error |-> err]

\* prompt.format_messages(input_data=input_data)
PromptMessages ==
    << [type |-> "SystemMessage", tool_calls |-> "", content |-> <<"Y", "o", "u">>, error |-> ""],
       [type |-> "HumanMessage", tool_calls |-> "", content |-> <<"C", "T", "F">>, error |-> ""] >>

\* the longest conversation followed
MaxMessages == 19

\* how many tool calls of one run may fail
MaxToolErrors == 1

ToolErrors(msgs) == Cardinality({ i \in 1..Len(msgs) : msgs[i].error # "" })

\* the message-count ceiling of should_continue
MESSAGE_CEILING == 15

\* should_continue with the ceiling as its only reason to end
should_continue_ceiling_only(msgs) ==
    LET last_message == msgs[Len(msgs)]
    IN  IF last_message.tool_calls # "" THEN "tools"
        ELSE IF Len(msgs) > MESSAGE_CEILING THEN "__end__"
        ELSE "tools"

\* should_continue
should_continue(msgs) ==
    LET last_message == msgs[Len(msgs)]
        upper        == Upper(last_message.content)
    IN  IF last_message.tool_calls # "" THEN "tools"
        ELSE IF /\ last_message.content # <<>>
                /\ \/ Contains(upper, TxtChallengeSolved)
                   \/ Contains(upper, TxtFLAGOpen)
                   \/ Contains(upper, TxtCTFOpen)
        THEN "__end__"
        ELSE IF Len(msgs) > MESSAGE_CEILING THEN "__end__"
        ELSE "__end__"

\* browser_manager.close(): quit the session if there is one
BrowserClose ==
    /\ driver' = "none"
    /\ sessions_closed' = IF driver = "open" THEN sessions_closed + 1 ELSE sessions_closed
    /\ UNCHANGED sessions_created

\* the agent node: the model replies, with one tool call or with none; or
\* agent_node raises (no valid history, the model call fails), app.invoke
\* raises it, run_ctf_solver closes the browser and re-raises
AgentTurn ==
    /\ lpc = "agent"
    /\ \/ \E tool \in ToolNames :
            /\ Len(history) + 3 <= MaxMessages
            /\ history' = Append(history, AIMessage(tool, <<>>))
            /\ lpc' = "route"
            /\ UNCHANGED <<final_content, driver, sessions_created, sessions_closed>>
       \/ \E text \in FinalContents :
            /\ history' = Append(history, AIMessage("", text))
            /\ lpc' = "route"
            /\ UNCHANGED <<final_content, driver, sessions_created, sessions_closed>>
       \/ /\ lpc' = "raised"
          /\ BrowserClose
          /\ UNCHANGED <<history, final_content>>
    /\ UNCHANGED <<convVars, invVars, wfVars, extVars, delayVars, stageVars, obsVars>>

\* the conditional edge after the agent node: on to the tools, or the graph
\* ends, run_ctf_solver takes the content of the last message, closes the
\* browser and returns
RouteStep ==
    /\ lpc = "route"
    /\ IF should_continue(history) = "tools"
       THEN /\ lpc' = "tools"
            /\ UNCHANGED <<final_content, driver, sessions_created, sessions_closed>>
       ELSE /\ lpc' = "returned"
            /\ final_content' = history[Len(history)].content
            /\ BrowserClose
    /\ UNCHANGED <<history, convVars, invVars, wfVars, extVars, delayVars, stageVars, obsVars>>

\* the tools that need the browser session
BrowserTools == {"navigate_to_url", "run_ffuf"}

\* a browser tool raising what its collaborators raise instead of
\* returning the description
WithBrowserRaising(tool) ==
    /\ history[Len(history)].tool_calls = tool
    /\ \/ /\ history' = Append(history, ToolMessage(tool, ""))
          /\ lpc' = "agent"
          /\ driver' = "open"
          /\ sessions_created' = IF driver = "none" THEN sessions_created + 1 ELSE sessions_created
          /\ UNCHANGED sessions_closed
       \/ /\ lpc' = "raised"
          /\ BrowserClose
          /\ UNCHANGED history

\* navigate_to_url and run_ffuf: get_driver creates the session when there
\* is none and reuses it otherwise; whatever get_driver, the driver or the
\* subprocess raises is caught and returned as text
WithBrowser(tool) ==
    /\ history[Len(history)].tool_calls = tool
    /\ lpc' = "agent"
    /\ \/ \E err \in {"", "tool"} :
            \* the session exists or is created; the page loads, the scan runs, or not
            /\ err # "" => ToolErrors(history) < MaxToolErrors
            /\ history' = Append(history, ToolMessage(tool, err))
            /\ driver' = "open"
            /\ sessions_created' = IF driver = "none" THEN sessions_created + 1 ELSE sessions_created
       \/ \* webdriver.Chrome(...) raises: no session
          /\ driver = "none"
          /\ ToolErrors(history) < MaxToolErrors
          /\ history' = Append(history, ToolMessage(tool, "driver"))
          /\ UNCHANGED <<driver, sessions_created>>
       \/ \* webdriver.Chrome(...) returns, implicitly_wait raises: the session stays
          /\ driver = "none"
          /\ ToolErrors(history) < MaxToolErrors
          /\ history' = Append(history, ToolMessage(tool, "driver"))
          /\ driver' = "open"
          /\ sessions_created' = sessions_created + 1
    /\ UNCHANGED sessions_closed

Navigate == WithBrowser("navigate_to_url")

RunFfuf == WithBrowser("run_ffuf")

\* a tools node handing back to the agent without a tool-result message
FetchWithoutResult ==
    /\ history[Len(history)].tool_calls = "fetch_contents"
    /\ lpc' = "agent"
    /\ UNCHANGED <<history, driver, sessions_created, sessions_closed>>

\* fetch_contents: an HTTP request without the browser; a failure is caught
\* and returned as text
Fetch ==
    /\ history[Len(history)].tool_calls = "fetch_contents"
    /\ lpc' = "agent"
    /\ \E err \in {"", "tool"} :
          /\ err # "" => ToolErrors(history) < MaxToolErrors
          /\ history' = Append(history, ToolMessage("fetch_contents", err))
    /\ UNCHANGED <<driver, sessions_created, sessions_closed>>

\* the tools node: the tool named by the last message runs and its text
\* becomes the tool-result message
ToolStep ==
    /\ lpc = "tools"
    /\ (Navigate \/ RunFfuf \/ Fetch)
    /\ UNCHANGED <<final_content, convVars, invVars, wfVars, extVars, delayVars, stageVars, obsVars>>

\* run_ctf_solver entered: the prompt messages, no browser session yet
InitAgent ==
    /\ history = PromptMessages
    /\ lpc = "agent"
    /\ final_content = <<>>
    /\ driver = "none"
    /\ sessions_created = 0
    /\ sessions_closed = 0
    /\ StagesFresh
    /\ ObserverIdle
    /\ error_message = <<>>
    /\ retry_delay = NotParsed
    /\ ExtractIdle
    /\ flag_format = <<>>
    /\ node = "idle"
    /\ wpc = "idle"
    /\ FreshState
    /\ ConvIdle
    /\ InvokeIdle

NextAgent == AgentTurn \/ RouteStep \/ ToolStep

SpecAgent == InitAgent /\ [][NextAgent]_vars

\* the scripted model has made its two turns: a tool call to navigate, the
\* tool result, then a reply without tool calls holding FLAG{test} and the
\* solved marker
ScriptReplied ==
    /\ lpc = "route"
    /\ Len(history) = 5
    /\ history[3] = AIMessage("navigate_to_url", <<>>)
    /\ history[4].type = "ToolMessage"
    /\ history[5] = AIMessage("", TxtFLAGtest \o <<" ">> \o TxtChallengeSolved)

C23_CeilingEndsLoop ==
    lpc = "tools" => Len(history) <= MESSAGE_CEILING

\* the model has asked for a tool in each of its eight turns: the
\* conversation holds 17 messages and the loop is at the tools node again
C23_ToolsBeyondCeiling ==
    /\ lpc = "tools"
    /\ Len(history) = 17
    /\ \A i \in 3..17 : (i % 2 = 1) => history[i].tool_calls # ""


\* C26: a step of the tools node never leaves the loop: whatever the
\* browser, the HTTP request or the subprocess did, the step appends one
\* tool-result message holding a non-empty text, with the description of the
\* failure when there was one, and hands over to the model; the model's
\* turn that follows a tool step finds that message last
C26_ToolsAlwaysReturnText ==
    /\ []((lpc = "agent" /\ Len(history) > Len(PromptMessages)) =>
            /\ history[Len(history)].type = "ToolMessage"
            /\ history[Len(history)].content # <<>>)
    /\ [][lpc = "tools" =>
            /\ lpc' = "agent"
            /\ \E err \in {"", "tool", "driver"} :
                  history' = Append(history, ToolMessage(history[Len(history)].tool_calls, err))]_vars

\* the session could not be created for run_ffuf, the tool returned the
\* description of that, and the model has replied to it
C26_Witness ==
    /\ Len(history) >= 5
    /\ history[Len(history) - 2].tool_calls = "run_ffuf"
    /\ history[Len(history) - 1].type = "ToolMessage"
    /\ history[Len(history) - 1].error = "driver"
    /\ history[Len(history)].type = "AIMessage"


\* ---------------------------------------------------------------------
\* C27: if the browser session cannot be created the run aborts: the
\* message reporting the failed creation is the last one of the
\* conversation, the run has ended with an error, and no session is left
\* (as claimed)
C27_DriverFailureAborts ==
    \A i \in 1..Len(history) :
        history[i].error = "driver" =>
            /\ i = Len(history)
            /\ lpc = "raised"
            /\ driver = "none"

\* a run that returned normally although get_driver had failed in it: the
\* failure went back to the model as the text of a tool result and the
\* model took further turns
C27_RunGoesOnAfterDriverFailure ==
    /\ lpc = "returned"
    /\ \E i \in 1..Len(history) :
          /\ history[i].error = "driver"
          /\ i + 2 <= Len(history)
          /\ history[i + 1].type = "AIMessage"
          /\ history[i + 1].tool_calls # ""

\* the session of a creation that failed after webdriver.Chrome returned
\* is not released when get_driver fails: it is still open at the model's
\* next turn
C27_PartialSessionKept ==
    /\ lpc = "agent"
    /\ history[Len(history)].error = "driver"
    /\ driver = "open"


----------------------------------------------------------------------------
(* The stage steps followed through their exception handlers: the error    *)
(* logs, the attempt record in full and the fuzzer's browser session, over *)
(* a target with few findings                                              *)

\* what one call of _identify_vulnerabilities returns for the small target
VulnSearch ==
    [vulnerability_type |-> "sql_injection", location |-> "/search", confidence |-> 90,
     attack_vectors |-> 1, payload_suggestions |-> <<"' OR 1=1--">>]
VulnPing ==
    [vulnerability_type |-> "command_injection", location |-> "/ping", confidence |-> 70,
     attack_vectors |-> 1, payload_suggestions |-> <<"; id">>]
VulnUpload ==
    [vulnerability_type |-> "file_upload", location |-> "/upload", confidence |-> 30,
     attack_vectors |-> 1, payload_suggestions |-> <<"shell.php">>]

StageVulnBatches == { <<>>, <<VulnSearch, VulnPing, VulnUpload>> }

\* what the HTTP request of a dispatched task does against the small
\* target: raises, or answers 200 or 500 without a flag, or 200 with one
StageResponses ==
    { [error |-> TRUE, status_code |-> 0, content |-> <<>>],
      [error |-> FALSE, status_code |-> 200, content |-> <<"o", "k">>],
      [error |-> FALSE, status_code |-> 500, content |-> <<>>],
      [error |-> FALSE, status_code |-> 200, content |-> TxtFlag \o TxtToken] }

\* bounds of the followed runs: errors logged over the run, browser
\* sessions the machine lets the fuzzer start, tasks dispatched
MaxStageErrors == 1
MaxSessions == 2
MaxDispatched == 4

\* how many errors the stages have logged so far
ErrorsLogged ==
    agent_errors["crawler"] + agent_errors["summarizer"]
        + agent_errors["threat_model"] + agent_errors["fuzzer"]

\* AgentState.add_error: one more entry in the stage's error log
add_error(agent) == agent_errors' = [agent_errors EXCEPT ![agent] = @ + 1]

\* BaseAgent.log_error
log_error(agent) == add_error(agent)

\* the node returns the state to the graph: its edge is evaluated next
HandOn ==
    /\ wpc' = "route"
    /\ UNCHANGED node

\* an exception that leaves the node and the graph: solve_ctf's handler
\* ends the run
StageRaisedUnwinding(agent, where) ==
    /\ ErrorsLogged < MaxStageErrors
    /\ stage_exception' = where
    /\ UNCHANGED agent_errors
    /\ node' = "END"
    /\ wpc' = "node"

\* an exception in a stage executor: raised inside execute's try it is
\* logged by execute's handler, raised in its finally it is logged by the
\* node's handler; either way the node returns the state
StageRaised(agent, where) ==
    /\ ErrorsLogged < MaxStageErrors
    /\ stage_exception' = where
    /\ IF where = "in_try" THEN log_error(agent) ELSE add_error(agent)
    /\ HandOn

\* a stage step in which nothing is raised
StageReturned ==
    /\ stage_exception' = "none"
    /\ UNCHANGED agent_errors
    /\ HandOn

\* _crawler_node with CrawlerAgent.execute
CrawlerStep ==
    /\ AtNode("crawler")
    /\ current_agent' = "crawler"
    /\ workflow_status' = "crawling"
    /\ \/ \E k \in PageBatches :
            /\ crawled_pages + k <= MaxCrawled
            /\ crawled_pages' = crawled_pages + k
            /\ \/ /\ progress' = [progress EXCEPT !["crawler"] = 100]
                  /\ completed_agents' = completed_agents \cup {"crawler"}
                  /\ StageReturned
               \/ /\ progress' = [progress EXCEPT !["crawler"] = 30]
                  /\ UNCHANGED completed_agents
                  /\ StageRaised("crawler", "in_try")
       \/ /\ progress' = [progress EXCEPT !["crawler"] = 10]
          /\ UNCHANGED <<crawled_pages, completed_agents>>
          /\ StageRaised("crawler", "in_try")
    /\ UNCHANGED <<vulnerabilities, fuzzing_queue, exploit_attempts, flags_found,
                   attempted_payloads, flag_format, last_attempt, fuzzer_driver,
                   fuzzer_sessions_created, fuzzer_sessions_closed,
                   convVars, invVars, extVars, delayVars, loopVars, obsVars>>

\* _summarizer_node with SummarizerAgent.execute
SummarizerStep ==
    /\ AtNode("summarizer")
    /\ current_agent' = "summarizer"
    /\ workflow_status' = "analyzing"
    /\ \/ /\ progress' = [progress EXCEPT !["summarizer"] = 100]
          /\ completed_agents' = completed_agents \cup {"summarizer"}
          /\ StageReturned
       \/ /\ progress' = [progress EXCEPT !["summarizer"] = 10]
          /\ UNCHANGED completed_agents
          /\ StageRaised("summarizer", "in_try")
    /\ UNCHANGED <<crawled_pages, vulnerabilities, fuzzing_queue, exploit_attempts,
                   flags_found, attempted_payloads, flag_format, last_attempt, fuzzer_driver,
                   fuzzer_sessions_created, fuzzer_sessions_closed,
                   convVars, invVars, extVars, delayVars, loopVars, obsVars>>

\* the edge summarizer -> threat_model
SummarizerEdge ==
    /\ AtRoute("summarizer")
    /\ node' = "threat_model"
    /\ wpc' = "node"
    /\ UNCHANGED <<workflow_status, current_agent, completed_agents, progress, crawled_pages,
                   vulnerabilities, fuzzing_queue, exploit_attempts, flags_found,
                   attempted_payloads, flag_format, convVars, invVars, extVars, restVars>>

\* _threat_model_node with ThreatModelAgent.execute
ThreatModelStep ==
    /\ AtNode("threat_model")
    /\ current_agent' = "threat_model"
    /\ workflow_status' = "modeling_threats"
    /\ \/ /\ progress' = [progress EXCEPT !["threat_model"] = 10]
          /\ UNCHANGED <<vulnerabilities, fuzzing_queue, completed_agents>>
          /\ StageRaised("threat_model", "in_try")
       \/ \E batch \in StageVulnBatches :
            /\ Len(vulnerabilities) + Len(batch) <= MaxVulns
            /\ vulnerabilities' = vulnerabilities \o batch
            /\ \/ /\ Len(fuzzing_queue) + Len(VulnTasks(vulnerabilities', 1)) <= MaxQueue
                  /\ fuzzing_queue' = PopulatedQueue(fuzzing_queue, vulnerabilities', 0)
                  /\ progress' = [progress EXCEPT !["threat_model"] = 100]
                  /\ completed_agents' = completed_agents \cup {"threat_model"}
                  /\ StageReturned
               \/ /\ progress' = [progress EXCEPT !["threat_model"] = 80]
                  /\ UNCHANGED <<fuzzing_queue, completed_agents>>
                  /\ StageRaised("threat_model", "in_try")
    /\ UNCHANGED <<crawled_pages, exploit_attempts, flags_found, attempted_payloads,
                   flag_format, last_attempt, fuzzer_driver,
                   fuzzer_sessions_created, fuzzer_sessions_closed,
                   convVars, invVars, extVars, delayVars, loopVars, obsVars>>

\* the except branch of _execute_fuzzing_task leaving the status as it was
\* constructed
ExploitAttemptErrorInProgress(task, resp) ==
    LET result == AttemptFor(resp) IN
    [attack_vector |-> task.attack_vector, payload |-> task.payload,
     status |-> IF resp.error THEN "in_progress" ELSE result.status,
     flag_found |-> result.flag_found,
     error_message |-> resp.error, status_code |-> result.status_code]

\* _execute_fuzzing_task: the ExploitAttempt as it is added to the state;
\* error_message is set in the except branch, response_data in the exploit
ExploitAttemptFor(task, resp) ==
    LET result == AttemptFor(resp) IN
    [attack_vector |-> task.attack_vector, payload |-> task.payload,
     status |-> result.status, flag_found |-> result.flag_found,
     error_message |-> resp.error, status_code |-> result.status_code]

\* _setup_web_automation: what webdriver.Chrome and set_page_load_timeout do
ChromeOutcomes == {"starts", "fails", "fails_after_start"}

\* driver.quit() in execute's finally
QuitOutcomes == {"quits", "raises"}

\* the step keeping in attempted_payloads the payload dispatched last and
\* nothing else
AfterDispatchLastPayloadOnly(fuzz_task, result) ==
    LET adaptive  == AdaptiveTasks(fuzz_task, result)
        queue1    == IF result.flag_found # <<>> THEN Pop(fuzzing_queue).rest
                     ELSE Pop(fuzzing_queue).rest \o adaptive
        attempts1 == Append(exploit_attempts,
                            [attack_vector |-> result.attack_vector,
                             payload |-> result.payload,
                             status |-> result.status,
                             flag_found |-> result.flag_found])
        done      == Len(attempts1) >= FUZZER_MAX_ATTEMPTS \/ queue1 = <<>>
    IN  /\ exploit_attempts' = attempts1
        /\ last_attempt' = result
        /\ flags_found' = IF result.flag_found # <<>>
                          THEN Append(flags_found, result.flag_found) ELSE flags_found
        /\ fuzzing_queue' = queue1
        /\ attempted_payloads' = {result.payload}
        /\ workflow_status' = IF result.flag_found # <<>> THEN "completed" ELSE "fuzzing"
        /\ progress' = [progress EXCEPT !["fuzzer"] =
               IF done \/ result.flag_found # <<>> THEN 100 ELSE FuzzProgress(queue1)]
        /\ completed_agents' =
               IF done THEN completed_agents \cup {"fuzzer"} ELSE completed_agents

\* FuzzerAgent.execute from the return of _execute_fuzzing_task on: the
\* attempt is in the state, the flag ends the stage, otherwise the adaptive
\* tasks are appended and the progress is set
AfterDispatch(fuzz_task, result) ==
    LET adaptive  == AdaptiveTasks(fuzz_task, result)
        queue1    == IF result.flag_found # <<>> THEN Pop(fuzzing_queue).rest
                     ELSE Pop(fuzzing_queue).rest \o adaptive
        attempts1 == Append(exploit_attempts,
                            [attack_vector |-> result.attack_vector,
                             payload |-> result.payload,
                             status |-> result.status,
                             flag_found |-> result.flag_found])
        done      == Len(attempts1) >= FUZZER_MAX_ATTEMPTS \/ queue1 = <<>>
    IN  /\ exploit_attempts' = attempts1
        /\ last_attempt' = result
        /\ flags_found' = IF result.flag_found # <<>>
                          THEN Append(flags_found, result.flag_found) ELSE flags_found
        /\ fuzzing_queue' = queue1
        /\ attempted_payloads' =
               IF result.flag_found # <<>> THEN attempted_payloads
               ELSE attempted_payloads \cup { adaptive[i].payload : i \in 1..Len(adaptive) }
        /\ workflow_status' = IF result.flag_found # <<>> THEN "completed" ELSE "fuzzing"
        /\ progress' = [progress EXCEPT !["fuzzer"] =
               IF done \/ result.flag_found # <<>> THEN 100 ELSE FuzzProgress(queue1)]
        /\ completed_agents' =
               IF done THEN completed_agents \cup {"fuzzer"} ELSE completed_agents

\* _fuzzer_node with FuzzerAgent.execute: the browser session is set up
\* first, then the head of the queue is dispatched, and the finally clause
\* quits the session
FuzzerStep(resp, chrome, quit) ==
    /\ AtNode("fuzzer")
    /\ current_agent' = "fuzzer"
    /\ LET started == fuzzer_driver = "none" /\ chrome # "fails"
           open    == fuzzer_driver = "open" \/ chrome = "starts"
       IN  /\ fuzzer_driver = "open" => chrome = "starts"
           /\ started => fuzzer_sessions_created < MaxSessions
           /\ fuzzer_sessions_created' =
                 IF started THEN fuzzer_sessions_created + 1 ELSE fuzzer_sessions_created
           /\ ~open => quit = "quits"
           /\ fuzzer_driver' = IF open /\ quit = "raises" THEN "open" ELSE "none"
           /\ fuzzer_sessions_closed' =
                 IF open /\ quit = "quits" THEN fuzzer_sessions_closed + 1
                 ELSE fuzzer_sessions_closed
           /\ IF open /\ quit = "raises"
              THEN StageRaised("fuzzer", "in_finally")
              ELSE StageReturned
    /\ IF fuzzing_queue = <<>>
       THEN /\ progress' = [progress EXCEPT !["fuzzer"] = 100]
            /\ workflow_status' = "fuzzing"
            /\ UNCHANGED <<fuzzing_queue, exploit_attempts, flags_found,
                           attempted_payloads, completed_agents, last_attempt>>
       ELSE /\ Len(exploit_attempts) < MaxDispatched
            /\ AfterDispatch(Pop(fuzzing_queue).task,
                             ExploitAttemptFor(Pop(fuzzing_queue).task, resp))
    /\ UNCHANGED <<crawled_pages, vulnerabilities, flag_format,
                   convVars, invVars, extVars, delayVars, loopVars, obsVars>>

FuzzerStage ==
    \E resp \in StageResponses, chrome \in ChromeOutcomes, quit \in QuitOutcomes :
        FuzzerStep(resp, chrome, quit)

\* solve_ctf with the compiled graph, entered at the crawler
InitStages ==
    /\ node = "crawler"
    /\ wpc = "node"
    /\ flag_format = TxtFlag \o <<"{", "*", "}">>
    /\ FreshState
    /\ ConvIdle
    /\ InvokeIdle
    /\ ExtractIdle
    /\ DelayIdle

NextStages ==
    \/ CrawlerStep
    \/ CrawlerRoute
    \/ SummarizerStep
    \/ SummarizerEdge
    \/ ThreatModelStep
    \/ ThreatModelRoute
    \/ FuzzerStage
    \/ FuzzerRoute
    \/ CoordinatorNode
    \/ CoordinatorRoute

SpecStages == InitStages /\ [][NextStages]_vars


\* the conditional edge (or plain edge) that follows each stage node
EdgeAfter(stage) ==
    CASE stage = "crawler" -> ShouldContinueCrawling
      [] stage = "summarizer" -> "threat_model"
      [] stage = "threat_model" -> ShouldContinueThreatModeling
      [] stage = "fuzzer" -> ShouldContinueFuzzing.to

\* ---------------------------------------------------------------------
\* C24: an exception raised inside a stage executor never unwinds the
\* run: the step appends one entry to that stage's error log and to no
\* other, keeps what the executor had already put into the shared state
\* and returns it to the graph; the stage's edge is then enabled and is
\* evaluated by its usual predicate
C24_StageErrorsHandedOn ==
    /\ [][(wpc = "node" /\ node \in StageAgents /\ stage_exception' # "none") =>
            /\ agent_errors' = [agent_errors EXCEPT ![node] = @ + 1]
            /\ crawled_pages' >= crawled_pages
            /\ Len(vulnerabilities') >= Len(vulnerabilities)
            /\ Len(exploit_attempts') >= Len(exploit_attempts)
            /\ node' = node
            /\ wpc' = "route"]_vars
    /\ []((wpc = "route" /\ node \in StageAgents /\ stage_exception # "none") =>
            ENABLED <<NextStages>>_vars)
    /\ [][(wpc = "route" /\ node \in StageAgents /\ stage_exception # "none") =>
            /\ node' = EdgeAfter(node)
            /\ wpc' = "node"
            /\ UNCHANGED agent_errors]_vars

\* the crawl raised after 25 pages; the error is in the crawler's log, the
\* pages are kept and the edge has sent the run back into the crawler
C24_Witness ==
    /\ AtNode("crawler")
    /\ stage_exception = "in_try"
    /\ agent_errors = [a \in StageAgents |-> IF a = "crawler" THEN 1 ELSE 0]
    /\ progress["crawler"] = 30
    /\ crawled_pages = 25

\* the same for an exception of the fuzzer's finally clause, which only the
\* node's handler catches
C24_WitnessFinally ==
    /\ AtNode("coordinator")
    /\ stage_exception = "in_finally"
    /\ agent_errors["fuzzer"] = 1
    /\ fuzzer_driver = "open"


\* the HTTP request of the dispatched task raises
RequestFails == [error |-> TRUE, status_code |-> 0, content |-> <<>>]

\* ---------------------------------------------------------------------
\* C25: when the HTTP request of the dispatched task raises, the Fuzz step
\* records exactly one ExploitAttempt for that task, with status failed and
\* the error message, removes only that task from the queue, logs nothing
\* as raised inside the executor and returns to the graph; with tasks left
\* the edge re-enters the fuzzer, and a Fuzz step with a task queued
\* dispatches the head of the queue
C25_RequestFailureRecorded ==
    /\ [][(/\ fuzzing_queue # <<>>
           /\ \E chrome \in ChromeOutcomes, quit \in QuitOutcomes :
                 FuzzerStep(RequestFails, chrome, quit)) =>
            /\ exploit_attempts' =
                  Append(exploit_attempts,
                         [attack_vector |-> Head(fuzzing_queue).attack_vector,
                          payload |-> Head(fuzzing_queue).payload,
                          status |-> "failed", flag_found |-> <<>>])
            /\ last_attempt'.status = "failed"
            /\ last_attempt'.error_message
            /\ fuzzing_queue' = Tail(fuzzing_queue)
            /\ stage_exception' # "in_try"
            /\ flags_found' = flags_found
            /\ AtRoute("fuzzer")']_vars
    /\ [][(AtRoute("fuzzer") /\ last_attempt.error_message /\ fuzzing_queue # <<>>) =>
            /\ AtNode("fuzzer")'
            /\ fuzzing_queue' = fuzzing_queue]_vars
    /\ [][(AtNode("fuzzer") /\ fuzzing_queue # <<>>) =>
            /\ Len(exploit_attempts') = Len(exploit_attempts) + 1
            /\ last_attempt'.payload = Head(fuzzing_queue).payload
            /\ last_attempt'.attack_vector = Head(fuzzing_queue).attack_vector]_vars

\* the first task's request failed: one failed attempt with its error
\* message, the other two tasks still queued in order, the fuzzer entered
\* again
C25_Witness ==
    /\ AtNode("fuzzer")
    /\ Len(exploit_attempts) = 1
    /\ exploit_attempts[1].status = "failed"
    /\ last_attempt.error_message
    /\ last_attempt.payload = "' OR 1=1--"
    /\ Len(fuzzing_queue) = 2
    /\ Head(fuzzing_queue).payload = "; id"


\* _generate_adaptive_fuzzing as the adaptive expansion is described: the
\* alternate payloads not yet in the attempted set
AlternatePayloads == SelectSeq(AdditionalPayloads, LAMBDA pl : pl \notin attempted_payloads)

\* ---------------------------------------------------------------------
\* C30: when a dispatched SQL-injection task gets an HTTP 200 response
\* without a flag, the Fuzz step appends one task per alternate payload not
\* yet in the attempted-payload set, for the same type and location with
\* confidence 0.8, and adds those payloads to the set (as claimed)
C30_AdaptiveExpansion ==
    [][(/\ AtNode("fuzzer")
        /\ fuzzing_queue # <<>>
        /\ Head(fuzzing_queue).vulnerability_type = "sql_injection"
        /\ Len(exploit_attempts') = Len(exploit_attempts) + 1
        /\ last_attempt'.status_code = 200
        /\ last_attempt'.flag_found = <<>>) =>
          /\ fuzzing_queue' =
                Tail(fuzzing_queue) \o
                [ i \in 1..Len(AlternatePayloads) |->
                    [Head(fuzzing_queue) EXCEPT !.payload = AlternatePayloads[i],
                                                !.confidence = 80] ]
          /\ attempted_payloads' =
                attempted_payloads \cup
                { AlternatePayloads[i] : i \in 1..Len(AlternatePayloads) }]_vars

\* the SQL-injection task was answered 200 without a flag, and the Fuzz
\* step has left the queue without any new task and the attempted set empty
C30_NoExpansion ==
    /\ AtRoute("fuzzer")
    /\ Len(exploit_attempts) = 1
    /\ last_attempt.payload = "' OR 1=1--"
    /\ last_attempt.status_code = 200
    /\ last_attempt.flag_found = <<>>
    /\ last_attempt.status = "failed"
    /\ Len(fuzzing_queue) = 2
    /\ \A i \in 1..Len(fuzzing_queue) : fuzzing_queue[i].confidence # 80
    /\ attempted_payloads = {}


\* ---------------------------------------------------------------------
\* C28: in a run the browser session is created only when a task needs
\* it, at most once, it is closed only when the run ends, and after the
\* run none is open (as claimed, for the session of the fuzz stage)
C28_OneSessionPerRun ==
    /\ fuzzer_sessions_created <= 1
    /\ (fuzzer_sessions_created > 0 => exploit_attempts # <<>>)
    /\ (node # "END" => fuzzer_sessions_closed = 0)
    /\ (node = "END" =>
            /\ fuzzer_driver = "none"
            /\ fuzzer_sessions_closed = fuzzer_sessions_created)

\* two Fuzz steps into a run that is still going, the fuzzer has started
\* two browser sessions and quit both
C28_SessionPerFuzzStep ==
    /\ AtNode("fuzzer")
    /\ Len(exploit_attempts) = 2
    /\ fuzzer_sessions_created = 2
    /\ fuzzer_sessions_closed = 2
    /\ fuzzer_driver = "none"

\* the same property for the session of browser_manager in the agent loop
\* of src/main.py, where it holds
C28_LoopSessionScoped ==
    /\ sessions_created <= 1
    /\ (sessions_created > 0 =>
            \E i \in 1..Len(history) :
                /\ history[i].type = "ToolMessage"
                /\ history[i - 1].tool_calls \in BrowserTools)
    /\ (lpc \notin {"returned", "raised"} => sessions_closed = 0)
    /\ (lpc \in {"returned", "raised"} =>
            /\ driver = "none"
            /\ sessions_closed = sessions_created)


\* ---------------------------------------------------------------------
\* C29: no write to a run's state from outside the workflow engine
\* interleaves with the run's stage steps: a step that is not a step of the
\* engine (the graph position stays where it is) and changes the state is
\* taken only when the run is over (as claimed)
C29_SingleWriter ==
    [][(node' = node /\ wpc' = wpc /\ workflow_status' # workflow_status) =>
          node = "END"]_vars

\* the stop request has written the status after the crawler node ran and
\* before its edge is evaluated; the engine goes on writing the same state
C29_StopBetweenNodeAndEdge ==
    /\ AtRoute("crawler")
    /\ current_agent = "crawler"
    /\ workflow_status = "failed"


----------------------------------------------------------------------------
(* Population over a whole run *)

\* how many tasks of the triple (v, attack vector, payload) the run has
\* emitted so far: those still queued and those dispatched
Emitted(v, av, pl) ==
    Cardinality({ i \in 1..Len(fuzzing_queue) :
                    /\ fuzzing_queue[i].location = v.location
                    /\ fuzzing_queue[i].attack_vector = av
                    /\ fuzzing_queue[i].payload = pl })
    + Cardinality({ i \in 1..Len(exploit_attempts) :
                    /\ exploit_attempts[i].attack_vector = av
                    /\ exploit_attempts[i].payload = pl })

\* ---------------------------------------------------------------------
\* C31: over a whole run the population emits exactly one task for every
\* (vulnerability, attack vector, payload suggestion) triple, also when the
\* threat-model stage executes more than once: never more than one, and
\* one when the stage has just completed (as claimed)
C31_OneTaskPerTriple ==
    \A n \in 1..Len(vulnerabilities) :
        \A av \in 1..vulnerabilities[n].attack_vectors :
            \A k \in 1..Len(vulnerabilities[n].payload_suggestions) :
                LET e == Emitted(vulnerabilities[n], av,
                                 vulnerabilities[n].payload_suggestions[k])
                IN  /\ e <= 1
                    /\ (AtRoute("threat_model") /\ progress["threat_model"] = 100) => e = 1

\* the threat-model stage has completed a second time: the three tasks of
\* the first population were dispatched, and the second population has
\* queued the same three triples again
C31_TriplesEmittedTwice ==
    /\ AtRoute("threat_model")
    /\ Len(vulnerabilities) = 3
    /\ Len(exploit_attempts) = 3
    /\ Len(fuzzing_queue) = 3
    /\ \A n \in 1..3 :
          Emitted(vulnerabilities[n], 1, vulnerabilities[n].payload_suggestions[1]) = 2


----------------------------------------------------------------------------
(* The validity rule and the ladder, once more *)

\* ---------------------------------------------------------------------
\* C32: validate rejects every history in which an assistant message
\* carrying tool-calls has a predecessor that is neither a user message
\* nor a tool-result message, also when a tool-result message follows it;
\* the rejection is at such a message or ahead of it
C32_BadPredecessorRejected ==
    (verdict # NotCalled /\ ToolCallsBadPredecessor(messages)) =>
        /\ ~verdict.is_valid
        /\ \E i \in 2..Len(messages) :
              /\ HasToolCalls(messages[i])
              /\ messages[i - 1].type \notin {"HumanMessage", "ToolMessage"}
              /\ verdict.at <= i

\* rejected: a system message, the tool-call turn right after it, and its
\* tool result
C32_Witness ==
    /\ verdict # NotCalled
    /\ Len(messages) = 3
    /\ messages[1].type = "SystemMessage"
    /\ HasToolCalls(messages[2])
    /\ IsTool(messages[3])
    /\ ~verdict.is_valid
    /\ verdict.reason = "ai_bad_previous"
    /\ verdict.at = 2


\* ---------------------------------------------------------------------
\* C33: the ladder's budgets are 100%, 90%, ..., 30% of the ceiling, tried
\* in that strictly descending order; the first budget whose trimming
\* returns a candidate satisfying validate gives the result and is the last
\* one tried; a budget whose trimming raises is tried and passed over, and
\* the ladder goes on with the next one
C33_FirstValidBudget ==
    /\ Len(token_limits_to_try) = 8
    /\ \A j \in 1..8 : token_limits_to_try[j] * 10 = TOKEN_LIMIT * (11 - j)
    /\ \A j \in 1..7 : token_limits_to_try[j] > token_limits_to_try[j + 1]
    /\ apc # "entry" =>
          LET tried == BudgetsTried(messages, raises, 1)
              ok    == { a \in 1..8 : /\ a \notin raises
                                      /\ IsValid(trim_messages(messages, token_limits_to_try[a])) }
          IN  /\ \A k \in 1..Len(tried) : tried[k] = k
              /\ IF ok = {}
                 THEN Len(tried) = 8
                 ELSE /\ \A a \in ok : Len(tried) <= a
                      /\ Len(tried) \in ok
                      /\ apc = "invoked"
                      /\ trimmed_messages =
                            trim_messages(messages, token_limits_to_try[Len(tried)])

\* the ceiling budget raised, the 90% budget gave an invalid candidate, and a
\* lower budget gave the valid candidate the model was called with
C33_Witness ==
    /\ apc = "invoked"
    /\ raises = {1}
    /\ ~IsValid(trim_messages(messages, token_limits_to_try[2]))
    /\ Len(BudgetsTried(messages, raises, 1)) > 2
    /\ Len(BudgetsTried(messages, raises, 1)) < 8
    /\ trimmed_messages # messages
    /\ IsValid(trimmed_messages)


----------------------------------------------------------------------------
(* The order of the queue *)

Descending(q) == \A i, j \in 1..Len(q) : i < j => q[i].confidence >= q[j].confidence

----------------------------------------------------------------------------
(* The histories of the agent loop *)

\* state["messages"] as validate_message_sequence reads it: the class of
\* each message and whether it carries tool calls
LoopMessages(msgs) ==
    [ i \in 1..Len(msgs) |->
        [type |-> msgs[i].type, tool_calls |-> msgs[i].tool_calls # "", tokens |-> 10000] ]

\* ---------------------------------------------------------------------
\* C35: at every entry to agent_node the untrimmed history the loop has
\* built from the [system, user] prompt satisfies validate, and it ends
\* with the user message or a tool result; so the condition of the fatal
\* sequence-validation error (no valid history at all) does not arise
C35_LoopHistoriesValid ==
    lpc = "agent" =>
        LET m == LoopMessages(history)
        IN  /\ validate_message_sequence(m).is_valid
            /\ m[Len(m)].type \in {"HumanMessage", "ToolMessage"}
            /\ m[1].type = "SystemMessage" /\ m[2].type = "HumanMessage"

\* agent_node entered for the third time, after two tool-calling responses
\* and their tool results, one of them the description of a failure
C35_Witness ==
    /\ lpc = "agent"
    /\ Len(history) = 6
    /\ history[3].tool_calls # "" /\ history[4].type = "ToolMessage"
    /\ history[5].tool_calls # "" /\ history[6].type = "ToolMessage"
    /\ history[6].error # ""
    /\ IsValid(LoopMessages(history))


----------------------------------------------------------------------------
(* The worker thread and the polling loop of src/app.py *)

\* how many log records the solver emits over one run
MaxLogs == 3

ResultStatuses == {"SUCCESS", "ERROR"}

\* QueueHandler.emit, called on the worker thread by a logging call inside
\* run_ctf_solver: the formatted record is put on log_queue
WorkerEmit ==
    /\ solver_thread = "running"
    /\ emitted < MaxLogs
    /\ emitted' = emitted + 1
    /\ log_queue' = Append(log_queue, emitted + 1)
    /\ UNCHANGED <<solver_thread, result_queue, all_logs, opc, session_state, displayed,
                   convVars, invVars, wfVars, extVars, delayVars, loopVars, stageVars>>

\* run_solver_thread: run_ctf_solver returned or raised, and its outcome is
\* put on the result queue
WorkerPut ==
    /\ solver_thread = "running"
    /\ \E status \in ResultStatuses : result_queue' = Append(result_queue, status)
    /\ solver_thread' = "put"
    /\ UNCHANGED <<emitted, log_queue, all_logs, opc, session_state, displayed,
                   convVars, invVars, wfVars, extVars, delayVars, loopVars, stageVars>>

\* run_solver_thread returns: solver_thread.is_alive() is False from here on
WorkerExit ==
    /\ solver_thread = "put"
    /\ solver_thread' = "ended"
    /\ UNCHANGED <<emitted, log_queue, result_queue, all_logs, opc, session_state, displayed,
                   convVars, invVars, wfVars, extVars, delayVars, loopVars, stageVars>>

\* while solver_thread.is_alive() or not log_queue.empty()
LoopTest ==
    /\ opc = "while"
    /\ opc' = IF solver_thread # "ended" \/ log_queue # <<>> THEN "drain" ELSE "after"
    /\ UNCHANGED <<solver_thread, emitted, log_queue, result_queue, all_logs,
                   session_state, displayed,
                   convVars, invVars, wfVars, extVars, delayVars, loopVars, stageVars>>

\* the inner loop: while not log_queue.empty(), get_nowait and append
DrainLogs ==
    /\ opc = "drain"
    /\ IF log_queue # <<>>
       THEN /\ all_logs' = Append(all_logs, Head(log_queue))
            /\ log_queue' = Tail(log_queue)
            /\ UNCHANGED opc
       ELSE /\ opc' = "check"
            /\ UNCHANGED <<all_logs, log_queue>>
    /\ UNCHANGED <<solver_thread, emitted, result_queue, session_state, displayed,
                   convVars, invVars, wfVars, extVars, delayVars, loopVars, stageVars>>

\* result_queue.get_nowait(): the result is stored and the loop is left
\* (break), or the queue is empty and the loop sleeps and tests again
CheckResult ==
    /\ opc = "check"
    /\ IF result_queue # <<>>
       THEN /\ session_state' = Head(result_queue)
            /\ result_queue' = Tail(result_queue)
            /\ opc' = "after"
       ELSE /\ opc' = "while"
            /\ UNCHANGED <<session_state, result_queue>>
    /\ UNCHANGED <<solver_thread, emitted, log_queue, all_logs, displayed,
                   convVars, invVars, wfVars, extVars, delayVars, loopVars, stageVars>>

\* after the loop: the handler is removed and the final result is displayed
\* from the session state, which is then cleared
Display ==
    /\ opc = "after"
    /\ opc' = "shown"
    /\ displayed' = IF session_state = "none" THEN "nothing" ELSE session_state
    /\ session_state' = "none"
    /\ UNCHANGED <<solver_thread, emitted, log_queue, result_queue, all_logs,
                   convVars, invVars, wfVars, extVars, delayVars, loopVars, stageVars>>

\* solver_thread.start() has returned and the polling loop is entered
InitObserver ==
    /\ solver_thread = "running"
    /\ emitted = 0
    /\ log_queue = <<>>
    /\ result_queue = <<>>
    /\ all_logs = <<>>
    /\ opc = "while"
    /\ session_state = "none"
    /\ displayed = ""
    /\ error_message = <<>>
    /\ retry_delay = NotParsed
    /\ LoopIdle
    /\ StagesFresh
    /\ ExtractIdle
    /\ flag_format = <<>>
    /\ node = "idle"
    /\ wpc = "idle"
    /\ FreshState
    /\ ConvIdle
    /\ InvokeIdle

NextObserver ==
    \/ WorkerEmit
    \/ WorkerPut
    \/ WorkerExit
    \/ LoopTest
    \/ DrainLogs
    \/ CheckResult
    \/ Display

SpecObserver == InitObserver /\ [][NextObserver]_vars

\* ---------------------------------------------------------------------
\* C36: once the polling loop has been left, the worker's result has been
\* taken from the result queue and stored for display
C36_ResultRetrieved ==
    opc \in {"after", "shown"} =>
        /\ result_queue = <<>>
        /\ opc = "after" => session_state \in ResultStatuses
        /\ opc = "shown" => displayed \in ResultStatuses

\* the loop was left on its condition with the result still queued, and the
\* final display showed nothing
C36_ResultLeftUnread ==
    /\ opc = "shown"
    /\ displayed = "nothing"
    /\ solver_thread = "ended"
    /\ result_queue # <<>>
    /\ log_queue = <<>>

\* what the worker has emitted, in emission order
EmittedRecords == [ i \in 1..emitted |-> i ]

\* ---------------------------------------------------------------------
\* C37: once the polling loop has been left, every record the worker
\* emitted has been appended to the displayed log, in emission order, and
\* none is left in the log queue
C37_NoRecordLost ==
    opc \in {"after", "shown"} =>
        /\ all_logs = EmittedRecords
        /\ log_queue = <<>>

\* the loop was left by the break with the worker's last record still in
\* the log queue
C37_RecordLeftInQueue ==
    /\ opc = "shown"
    /\ displayed \in ResultStatuses
    /\ log_queue = <<emitted>>
    /\ all_logs = [ i \in 1..(emitted - 1) |-> i ]
    /\ emitted > 1


----------------------------------------------------------------------------
(* The attempt log and the submission *)

\* CTFSubmission.success: set by add_exploit_attempt, the only writer, when
\* the attempt added carries a flag and has status SUCCESS; never reset
success ==
    \E i \in 1..Len(exploit_attempts) :
        /\ exploit_attempts[i].flag_found # <<>>
        /\ exploit_attempts[i].status = "success"

\* ---------------------------------------------------------------------
\* C38: every attempt in the attempt log has status success or failed, and
\* success exactly when it carries an extracted flag; the submission is
\* marked successful exactly when flags_found is not empty
C38_AttemptStatusMatchesFlag ==
    /\ \A i \in 1..Len(exploit_attempts) :
          /\ exploit_attempts[i].status \in {"success", "failed"}
          /\ exploit_attempts[i].status = "success" <=> exploit_attempts[i].flag_found # <<>>
    /\ last_attempt # NoAttempt =>
          /\ last_attempt.status \in {"success", "failed"}
          /\ last_attempt.status = "success" <=> last_attempt.flag_found # <<>>
          /\ last_attempt.error_message => last_attempt.status = "failed"
    /\ success <=> flags_found # <<>>

\* the log holds a failed attempt without flag and, last, a successful one
\* with the flag that is in flags_found
C38_Witness ==
    /\ Len(exploit_attempts) >= 2
    /\ exploit_attempts[1].status = "failed"
    /\ exploit_attempts[1].flag_found = <<>>
    /\ exploit_attempts[Len(exploit_attempts)].status = "success"
    /\ flags_found = <<exploit_attempts[Len(exploit_attempts)].flag_found>>
    /\ success


====
